---- MODULE Spec2Model ----
(***************************************************************************)
(* A model of the sector/stock acquisition pipeline of                     *)
(* eastmoney_fund_flow.py: the retry wrapper, the sector crawl with its    *)
(* extraction strategies, the sector ranker, the field extractor and the   *)
(* stock cleaning step.                                                    *)
(*                                                                         *)
(* Python floats are modelled as exact rationals [n |-> .., d |-> ..] in   *)
(* lowest terms with d > 0; text is modelled as a sequence of one-character*)
(* strings.                                                                *)
(***************************************************************************)
EXTENDS Integers, Sequences, FiniteSets, TLC

VARIABLES
    \* retry_with_backoff: the decorator's arguments and the wrapper's frame
    max_retries, base_delay, max_delay, attempt, delay, slept, outcome,
    \* the wrapped operation: how many invocations it has had, and (for the
    \* generic operation of SpecRetry) how many leading invocations raise
    calls, fails_first,
    \* extract_float_value: its argument and what the call gave
    text, fx_out,
    \* process_sectors_data: its argument, what it returned, and the snapshot
    \* save_crawl_data wrote
    rank_in, rank_out, saved,
    \* clean_stock_data: the dict it was given first, the dict as the last call
    \* left it, whether it has run, and how often it has run on that dict
    stock_in, stock_info, cleaned, clean_calls,
    \* crawl_eastmoney_fund_flow: where the running call is, its all_sectors,
    \* the responses the current attempt has received, the strategies it has
    \* run with the number of records each gave, and the list it handed to
    \* process_sectors_data
    pc, all_sectors, api_response, html_response, ran, handed,
    \* get_sector_stocks: how many endpoint/filter combinations it has tried,
    \* the response to the last request, and how the call ended
    combo, list_response, list_out,
    \* get_stock_history_prices: its days argument, the response of the K-line
    \* endpoint, and what the call gave
    days, kline_response, history_out,
    \* the factor functions of stock_selection_strategy.py: the stock dict they
    \* are given and the scores they gave
    stock, factors,
    \* the selection functions: their stock_data and top_n arguments, and the
    \* scored collection, the selected stocks and the report
    stock_data, top_n, selection,
    \* add_history_prices_to_stocks: its stocks argument as the loop has left
    \* it, the number of stocks the loop has handled, and how the call ended
    addhist_stocks, addhist_pos, addhist_out,
    \* the extraction strategies: the content of the source in the form each
    \* strategy reads, and the strategy that ran with the records it gave and
    \* the pair process_sectors_data made of them
    page, extracted,
    \* build_column_mapping: the header row it is given and the map it returned
    header_row, col_map_out,
    \* fetch_sector_stocks_data: its argument, the dict it is filling as a
    \* sequence of its items in insertion order, the number of sectors the
    \* loop has handled, and how the call ended
    top_sectors_with_urls, all_sector_stocks, sector_pos, sectors_out

retry_vars == <<max_retries, base_delay, max_delay, attempt, delay, slept, outcome, calls, fails_first>>

field_vars == <<text, fx_out>>

rank_vars == <<rank_in, rank_out, saved>>

clean_vars == <<stock_in, stock_info, cleaned, clean_calls>>

crawl_vars == <<pc, all_sectors, api_response, html_response, ran, handed>>

list_vars == <<combo, list_response, list_out>>

hist_vars == <<days, kline_response, history_out>>

factor_vars == <<stock, factors>>

select_vars == <<stock_data, top_n, selection>>

addhist_vars == <<addhist_stocks, addhist_pos, addhist_out>>

\* the variables of the functions that work on fetched stocks and pages
extract_vars == <<page, extracted>>

column_vars == <<header_row, col_map_out>>

sector_vars == <<top_sectors_with_urls, all_sector_stocks, sector_pos, sectors_out>>

tail_vars == <<addhist_vars, extract_vars, column_vars, sector_vars>>

\* the variables of the stock fetcher, the history fetcher, the strategy and
\* the functions of tail_vars
later_vars == <<list_vars, hist_vars, factor_vars, select_vars, tail_vars>>

vars == <<retry_vars, field_vars, rank_vars, clean_vars, crawl_vars, later_vars>>

----------------------------------------------------------------------------
\* Bounds of the model

\* the largest max_retries SpecRetry gives the decorator
MaxRetriesBound == 4
\* random.uniform(0, 1) is drawn from {0/JitterDen, .., (JitterDen-1)/JitterDen}
JitterDen == 2
\* the longest text SpecField builds from FieldAlphabet
MaxTokenLen == 4
\* the longest list SpecRank hands to process_sectors_data
MaxRankLen == 6
\* the most entries an API payload has, and the most records one strategy
\* finds in an HTML page
MaxItems == 6

----------------------------------------------------------------------------
\* Exact arithmetic standing for Python's float

Abs(x) == IF x < 0 THEN -x ELSE x

RECURSIVE GCD(_, _)
GCD(a, b) == IF b = 0 THEN a ELSE GCD(b, a % b)

\* the rational n/d (d # 0) in lowest terms with a positive denominator
Rat(n, d) ==
    IF n = 0 THEN [n |-> 0, d |-> 1]
    ELSE IF d = 1 THEN [n |-> n, d |-> 1]
    ELSE LET g == GCD(Abs(n), Abs(d))
             s == IF d < 0 THEN -1 ELSE 1
         IN  [n |-> (s * n) \div g, d |-> (s * d) \div g]

RInt(i) == [n |-> i, d |-> 1]
RZero == RInt(0)
RAdd(x, y) == Rat(x.n * y.d + y.n * x.d, x.d * y.d)
RSub(x, y) == Rat(x.n * y.d - y.n * x.d, x.d * y.d)
RMul(x, y) == Rat(x.n * y.n, x.d * y.d)
\* x / y for y # 0
RDiv(x, y) == Rat(x.n * y.d, x.d * y.n)
RLt(x, y) == x.n * y.d < y.n * x.d
RLe(x, y) == x.n * y.d <= y.n * x.d
RMin(x, y) == IF RLe(x, y) THEN x ELSE y
IsRat(x) == x \in [n : Int, d : Nat \ {0}]

RECURSIVE Pow2(_)
Pow2(k) == IF k = 0 THEN 1 ELSE 2 * Pow2(k - 1)

----------------------------------------------------------------------------
\* Python str and float(): a str is a sequence of one-character strings

None == [py |-> "None"]

Digits == <<"0", "1", "2", "3", "4", "5", "6", "7", "8", "9">>
IsDigit(c) == \E k \in 1 .. 10 : Digits[k] = c
DigitVal(c) == (CHOOSE k \in 1 .. 10 : Digits[k] = c) - 1
IsSign(c) == c \in {"-", "+"}

RECURSIVE DigitsVal(_)
DigitsVal(s) == IF s = <<>> THEN 0 ELSE 10 * DigitsVal(SubSeq(s, 1, Len(s) - 1)) + DigitVal(s[Len(s)])

RECURSIVE Pow10(_)
Pow10(k) == IF k = 0 THEN 1 ELSE 10 * Pow10(k - 1)

AllDigits(s) == \A k \in 1 .. Len(s) : IsDigit(s[k])

\* the index of the "." in s, 0 when s has none
PointAt(s) == IF \E k \in 1 .. Len(s) : s[k] = "." THEN CHOOSE k \in 1 .. Len(s) : s[k] = "." /\ \A m \in 1 .. k - 1 : s[m] # "." ELSE 0

Ok(v) == [ok |-> TRUE, v |-> v, err |-> "none"]
Err(e) == [ok |-> FALSE, v |-> RZero, err |-> e]

\* float(s) for a str s built from signs, digits, "." and other characters
\* that are not part of any float literal: [sign] digits ["." [digits]] or
\* [sign] "." digits gives the number, anything else raises ValueError
PyFloatStr(s) ==
    LET signed == s # <<>> /\ IsSign(s[1])
        body == IF signed THEN SubSeq(s, 2, Len(s)) ELSE s
        p == PointAt(body)
        ip == IF p = 0 THEN body ELSE SubSeq(body, 1, p - 1)
        fp == IF p = 0 THEN <<>> ELSE SubSeq(body, p + 1, Len(body))
        mag == Rat(DigitsVal(ip \o fp), Pow10(Len(fp)))
    IN  IF AllDigits(ip) /\ AllDigits(fp) /\ Len(ip) + Len(fp) > 0
        THEN Ok(IF signed /\ s[1] = "-" THEN RSub(RZero, mag) ELSE mag)
        ELSE Err("ValueError")

----------------------------------------------------------------------------
\* extract_float_value (eastmoney_fund_flow.py 516-525)

\* the last index of the run of digits of t that starts at p (t[p] a digit)
RECURSIVE DigitRunEnd(_, _)
DigitRunEnd(t, p) == IF p < Len(t) /\ IsDigit(t[p + 1]) THEN DigitRunEnd(t, p + 1) ELSE p

\* [-+]?\d+(?:\.\d+)? tried at index i of t, a mutation: the sign is not part
\* of the pattern
MatchEndUnsigned(t, i) ==
    IF ~IsDigit(t[i]) THEN 0
    ELSE LET q == DigitRunEnd(t, i)
         IN  IF q + 2 <= Len(t) /\ t[q + 1] = "." /\ IsDigit(t[q + 2])
             THEN DigitRunEnd(t, q + 2)
             ELSE q

\* [-+]?\d+(?:\.\d+)? tried at index i of t: the last index of the match, 0
\* when the pattern does not match there
MatchEnd(t, i) ==
    LET p == IF IsSign(t[i]) THEN i + 1 ELSE i
    IN  IF p > Len(t) \/ ~IsDigit(t[p]) THEN 0
        ELSE LET q == DigitRunEnd(t, p)
             IN  IF q + 2 <= Len(t) /\ t[q + 1] = "." /\ IsDigit(t[q + 2])
                 THEN DigitRunEnd(t, q + 2)
                 ELSE q

\* re.search(pattern, text): the leftmost match as <<first, last>>, <<>> for None
ReSearch(t) ==
    IF \E i \in 1 .. Len(t) : MatchEnd(t, i) > 0
    THEN LET i == CHOOSE i \in 1 .. Len(t) : MatchEnd(t, i) > 0 /\ \A k \in 1 .. i - 1 : MatchEnd(t, k) = 0
         IN  <<i, MatchEnd(t, i)>>
    ELSE <<>>

\* the call's result: the float returned, or the exception that escaped
extract_float_value(t) ==
    LET m == ReSearch(t)
    IN  IF m # <<>>
        THEN LET f == PyFloatStr(SubSeq(t, m[1], m[2]))
             IN  IF f.ok THEN [raised |-> "none", val |-> f.v]
                 ELSE IF f.err = "ValueError" THEN [raised |-> "none", val |-> RZero]
                 ELSE [raised |-> f.err, val |-> RZero]
        ELSE [raised |-> "none", val |-> RZero]

FieldAlphabet == {"-", "+", ".", "0", "5", "a", "%"}

\* the tokens the specification names; "Y" stands for the character yi
\* (hundred million) that follows an amount
SpecTokens == {
    <<"+", "1", ".", "2", "3", "%">>, <<"1", "2", ".", "3", "Y">>, <<"-">>, <<"-", "-">>,
    <<"N", "o", "n", "e">>, <<>>, <<"a", "b", "c">> }

FieldTokens == SpecTokens \cup UNION {[1 .. n -> FieldAlphabet] : n \in 0 .. MaxTokenLen}

NotCalled == [raised |-> "pending", val |-> RZero]

FieldIdle == text = <<>> /\ fx_out = NotCalled

----------------------------------------------------------------------------
\* Python values held in a dict: a number, a str, None, or no entry for the key

Num(r) == [t |-> "num", v |-> r, s |-> <<>>]
Str(s) == [t |-> "str", v |-> RZero, s |-> s]
Null == [t |-> "null", v |-> RZero, s |-> <<>>]
Absent == [t |-> "absent", v |-> RZero, s |-> <<>>]

\* float(x)
PyFloat(x) ==
    CASE x.t = "num" -> Ok(x.v)
      [] x.t = "str" -> PyFloatStr(x.s)
      [] OTHER -> Err("TypeError")

\* round(x, k): to k decimals, a tie to the even neighbour
RRound(x, k) ==
    LET m == x.n * Pow10(k)
        q == m \div x.d
        r == m % x.d
        up == 2 * r > x.d \/ (2 * r = x.d /\ q % 2 = 1)
    IN  Rat(IF up THEN q + 1 ELSE q, Pow10(k))

----------------------------------------------------------------------------
\* The values the variables of the stock fetcher, the history fetcher and the
\* strategy hold while another part of the program is examined

\* the keys of a stock dict the factor functions read
FactorKeys == {
    "change_rate", "main_inflow", "main_ratio", "super_large_inflow", "super_large_ratio",
    "volume_ratio", "price", "ma5", "ma10", "ma20" }

\* a stock dict as the strategy sees it: its code and sector, the values under
\* FactorKeys, and its history_prices (close prices only) if it has the key
NoStock ==
    [code |-> <<>>, sector |-> <<>>, f |-> [k \in FactorKeys |-> Absent],
     has_history |-> FALSE, history_prices |-> <<>>]

ListIdle ==
    /\ combo = 0
    /\ list_response = [kind |-> "none", diff |-> <<>>]
    /\ list_out = [kind |-> "idle", val |-> <<>>]

HistIdle ==
    /\ days = 0
    /\ kline_response = [kind |-> "none", klines |-> <<>>]
    /\ history_out = [kind |-> "idle", val |-> <<>>]

FactorIdle ==
    /\ stock = NoStock
    /\ factors = [kind |-> "idle"]

SelectIdle ==
    /\ stock_data = <<>>
    /\ top_n = 0
    /\ selection = [kind |-> "idle"]

AddHistIdle ==
    /\ addhist_stocks = <<>>
    /\ addhist_pos = 0
    /\ addhist_out = "idle"

NoExtraction == [method |-> "none", sectors |-> <<>>, ranked |-> None]

ExtractIdle ==
    /\ page = [diff |-> <<>>, tables |-> <<>>, words |-> <<>>, frames |-> <<>>]
    /\ extracted = [method |-> "idle", sectors |-> <<>>, ranked |-> None]

ColumnIdle ==
    /\ header_row = <<>>
    /\ col_map_out = None

SectorIdle ==
    /\ top_sectors_with_urls = <<>>
    /\ all_sector_stocks = <<>>
    /\ sector_pos = 0
    /\ sectors_out = "idle"

TailIdle == AddHistIdle /\ ExtractIdle /\ ColumnIdle /\ SectorIdle

LaterIdle == ListIdle /\ HistIdle /\ FactorIdle /\ SelectIdle /\ TailIdle

----------------------------------------------------------------------------
\* clean_stock_data (eastmoney_fund_flow.py 528-603)

\* float_fields, lines 533-541
float_fields == {
    "price", "change_rate", "change_amount", "volume", "volume_amount",
    "turnover_rate", "volume_ratio", "pe_ratio", "pb_ratio",
    "market_cap", "circulation_cap", "high_price", "low_price",
    "open_price", "pre_close_price", "amplitude", "main_inflow",
    "main_ratio", "super_large_inflow", "super_large_ratio",
    "large_inflow", "large_ratio", "rsi", "ma5", "ma10", "ma20",
    "ma30", "ma60" }

\* the keys clean_stock_data adds, lines 567-591
derived_fields == {
    "price_position", "market_cap_billion", "circulation_cap_billion",
    "fund_intensity", "volume_status", "turnover_status" }

\* the keys of the dict get_sector_stocks builds (677-704) that are not in
\* float_fields
other_fields == {"code", "name", "amount"}

StockKeys == float_fields \cup derived_fields \cup other_fields

\* if value > 999999, line 553
SanityCeiling == 999999
\* market_cap / 10000, lines 572-573
CapDivisor == 10000

\* the body of the loop over float_fields, a mutation: every value it keeps
\* is rescaled in place, from a percentage to a fraction
CleanFieldConverting(x) ==
    IF x # Absent /\ x # Str(<<>>)
    THEN IF x \in {Str(<<"-">>), Str(<<"-", "-">>), Str(<<"N", "o", "n", "e">>)}
         THEN Num(RZero)
         ELSE LET f == PyFloat(x)
              IN  IF ~f.ok THEN Num(RZero)
                  ELSE IF RLt(RInt(SanityCeiling), f.v) THEN Num(RZero)
                  ELSE Num(RDiv(f.v, RInt(100)))
    ELSE Num(RZero)

\* the body of the loop over float_fields, lines 545-560: the value the
\* field holds afterwards
CleanField(x) ==
    IF x # Absent /\ x # Str(<<>>)
    THEN IF x \in {Str(<<"-">>), Str(<<"-", "-">>), Str(<<"N", "o", "n", "e">>)}
         THEN Num(RZero)
         ELSE LET f == PyFloat(x)
              IN  IF ~f.ok THEN Num(RZero)
                  ELSE IF RLt(RInt(SanityCeiling), f.v) THEN Num(RZero)
                  ELSE Num(f.v)
    ELSE Num(RZero)

\* lines 565-569
PricePosition(d) ==
    IF RLt(d["low_price"].v, d["high_price"].v)
    THEN RRound(RMul(RDiv(RSub(d["price"].v, d["low_price"].v), RSub(d["high_price"].v, d["low_price"].v)), RInt(100)), 2)
    ELSE RInt(50)

\* lines 576-580
FundIntensity(d) ==
    IF RLt(RZero, d["circulation_cap"].v)
    THEN RRound(RMul(RDiv(d["main_inflow"].v, d["circulation_cap"].v), RInt(100)), 4)
    ELSE RZero

\* lines 586-591; the three labels are written here as one ASCII word each
TurnoverStatus(d) ==
    IF RLt(RInt(10), d["turnover_rate"].v) THEN Str(<<"high_turnover">>)
    ELSE IF RLt(RInt(5), d["turnover_rate"].v) THEN Str(<<"mid_turnover">>)
    ELSE Str(<<"low_turnover">>)

\* the dict as clean_stock_data returns it. After the loop every float field
\* holds a float, and both divisions are guarded, so the except branch of
\* lines 593-601 is not entered
clean_stock_data(info) ==
    LET d == [k \in StockKeys |-> IF k \in float_fields THEN CleanField(info[k]) ELSE info[k]]
    IN  [k \in StockKeys |->
            CASE k = "price_position" -> Num(PricePosition(d))
              [] k = "market_cap_billion" -> Num(RRound(RDiv(d["market_cap"].v, RInt(CapDivisor)), 2))
              [] k = "circulation_cap_billion" -> Num(RRound(RDiv(d["circulation_cap"].v, RInt(CapDivisor)), 2))
              [] k = "fund_intensity" -> Num(FundIntensity(d))
              [] k = "volume_status" -> IF RLt(RInt(1), d["volume_ratio"].v) THEN Str(<<"volume_up">>) ELSE Str(<<"volume_down">>)
              [] k = "turnover_status" -> TurnoverStatus(d)
              [] OTHER -> d[k]]

EmptyStock == [k \in StockKeys |-> Absent]

CleanIdle == stock_in = EmptyStock /\ stock_info = EmptyStock /\ cleaned = FALSE /\ clean_calls = 0

----------------------------------------------------------------------------
\* process_sectors_data (eastmoney_fund_flow.py 311-326)

Min(a, b) == IF a <= b THEN a ELSE b

\* a sector record, the dict of lines 222-230, 415-423, 456-464 and 493-501
Sector(name, sli, li) ==
    [name |-> name, change_rate |-> RZero, super_large_inflow |-> sli, super_large_ratio |-> RZero,
     large_inflow |-> li, large_ratio |-> RZero, max_stock |-> <<"x">>]

\* the first five, all_sectors[:5], line 319
TopCount == 5

\* key=lambda x: ... (line 316), a mutation: the large orders are left out
InflowKeySuperOnly(x) == x.super_large_inflow

\* key=lambda x: (x['super_large_inflow'] + x['large_inflow']), line 316
InflowKey(x) == RAdd(x.super_large_inflow, x.large_inflow)

\* the index before which list.sort(reverse=True) puts x among the already
\* sorted s, a mutation: x goes before the elements whose key equals its own
\* (what sorting ascending and reversing the list gives)
InsertAtUnstable(s, x) ==
    IF \E i \in 1 .. Len(s) : RLe(InflowKey(s[i]), InflowKey(x))
    THEN CHOOSE i \in 1 .. Len(s) :
             /\ RLe(InflowKey(s[i]), InflowKey(x))
             /\ \A k \in 1 .. i - 1 : ~RLe(InflowKey(s[k]), InflowKey(x))
    ELSE Len(s) + 1

\* the index before which list.sort(reverse=True) puts x, an element that
\* came after all of s in the list, among the already sorted s: before the
\* first element with a smaller key, so after every element with an equal key
\* (the sort is stable, and reverse=True keeps it so)
InsertAt(s, x) ==
    IF \E i \in 1 .. Len(s) : RLt(InflowKey(s[i]), InflowKey(x))
    THEN CHOOSE i \in 1 .. Len(s) :
             /\ RLt(InflowKey(s[i]), InflowKey(x))
             /\ \A k \in 1 .. i - 1 : ~RLt(InflowKey(s[k]), InflowKey(x))
    ELSE Len(s) + 1

\* all_sectors.sort(key=..., reverse=True), line 316
RECURSIVE SortByInflowDesc(_)
SortByInflowDesc(s) ==
    IF s = <<>> THEN <<>>
    ELSE LET x == s[Len(s)]
             front == SortByInflowDesc(SubSeq(s, 1, Len(s) - 1))
             i == InsertAt(front, x)
         IN  SubSeq(front, 1, i - 1) \o <<x>> \o SubSeq(front, i, Len(front))

\* all_sectors[:5], a mutation: one element short
TopSliceShort(s) == SubSeq(s, 1, Min(TopCount - 1, Len(s)))

\* all_sectors[:5], line 319
TopSlice(s) == SubSeq(s, 1, Min(TopCount, Len(s)))

\* save_crawl_data(all_sectors, top_sectors) (787-837): the object given to
\* json.dump, without its crawl_time; every failure in it is caught and printed
save_crawl_data(all, top) == [top_sectors |-> top]

\* return top_sectors, all_sectors
process_sectors_data(sectors) ==
    LET sorted == SortByInflowDesc(sectors)
    IN  [py |-> "tuple", top |-> TopSlice(sorted), all |-> sorted]

NotSaved == [top_sectors |-> <<>>]

RankIdle == rank_in = <<>> /\ rank_out = None /\ saved = NotSaved

----------------------------------------------------------------------------
\* retry_with_backoff (eastmoney_fund_flow.py 111-137)

Running == [kind |-> "running", val |-> None]

\* random.uniform(0, 1), line 131
Jitter == {Rat(j, JitterDen) : j \in 0 .. JitterDen - 1}

\* delay = min(base_delay * (2 ** attempt) + random.uniform(0, 1), max_delay),
\* a mutation: without the cap
BackoffDelayUncapped(a, j) == RAdd(RMul(base_delay, RInt(Pow2(a))), j)

\* delay = min(base_delay * (2 ** attempt) + random.uniform(0, 1), max_delay)
BackoffDelay(a, j) == RMin(RAdd(RMul(base_delay, RInt(Pow2(a))), j), max_delay)

\* if attempt == max_retries - 1 (line 126), a mutation: gives up one attempt early
IsLastAttemptEarly(a, n) == a >= n - 2
\* if attempt == max_retries - 1 (line 126), a mutation: off by one the other way
IsLastAttemptLate(a, n) == a = n

\* if attempt == max_retries - 1
IsLastAttempt(a, n) == a = n - 1

\* the body of the for loop is entered: attempt in range(max_retries)
InLoop == outcome.kind = "running" /\ attempt < max_retries

\* return func(*args, **kwargs), line 124
WrapperReturn(v) ==
    /\ outcome' = [kind |-> "returned", val |-> v]
    /\ UNCHANGED <<max_retries, base_delay, max_delay, attempt, delay, slept>>

\* except Exception as e, lines 125-133, a mutation: every exception is
\* re-raised at once
WrapperExceptNoRetry(e) ==
    /\ outcome' = [kind |-> "raised", val |-> e]
    /\ UNCHANGED <<max_retries, base_delay, max_delay, attempt, delay, slept>>

\* except Exception as e, lines 125-133: re-raise on the last attempt, else
\* sleep for the backoff delay and go round the loop
WrapperExcept(e) ==
    IF IsLastAttempt(attempt, max_retries)
    THEN /\ outcome' = [kind |-> "raised", val |-> e]
         /\ UNCHANGED <<max_retries, base_delay, max_delay, attempt, delay, slept>>
    ELSE /\ \E j \in Jitter : delay' = BackoffDelay(attempt, j)
         /\ slept' = slept + 1
         /\ attempt' = attempt + 1
         /\ UNCHANGED <<max_retries, base_delay, max_delay, outcome>>

\* the loop ends without a return or a raise: return None, line 135
WrapperFallsThrough ==
    /\ outcome.kind = "running"
    /\ attempt >= max_retries
    /\ outcome' = [kind |-> "returned", val |-> None]
    /\ UNCHANGED <<max_retries, base_delay, max_delay, attempt, delay, slept, calls, fails_first>>
    /\ UNCHANGED <<field_vars, rank_vars, clean_vars, crawl_vars, later_vars>>

----------------------------------------------------------------------------
\* fetch_sectors_from_api and parse_api_response (eastmoney_fund_flow.py 170-243)

\* the raw amount is divided by 10000, lines 225 and 227
UnitDivisor == 10000
\* EXTRACTION_CONFIG['min_data_rows'], line 86, and the literal of lines 159, 164
min_data_rows == 5

\* item.get(key, default), lines 223-229
ItemGet(item, key, default) == IF item[key] = Absent THEN default ELSE item[key]

Unknown == <<"unknown">>

\* the try body of lines 222-232 for one entry of diff: the sector record, or
\* the exception float() raised
ApiSector(item) ==
    LET f3 == PyFloat(ItemGet(item, "f3", Num(RZero)))
        f66 == PyFloat(ItemGet(item, "f66", Num(RZero)))
        f69 == PyFloat(ItemGet(item, "f69", Num(RZero)))
        f72 == PyFloat(ItemGet(item, "f72", Num(RZero)))
        f75 == PyFloat(ItemGet(item, "f75", Num(RZero)))
        bad == {f \in {f3, f66, f69, f72, f75} : ~f.ok}
    IN  IF bad # {}
        THEN [ok |-> FALSE, err |-> (CHOOSE f \in bad : TRUE).err, rec |-> Sector(Unknown, RZero, RZero)]
        ELSE [ok |-> TRUE, err |-> "none",
              rec |-> [name |-> ItemGet(item, "f14", Str(Unknown)).s,
                       change_rate |-> f3.v,
                       super_large_inflow |-> RDiv(f66.v, RInt(UnitDivisor)),
                       super_large_ratio |-> f69.v,
                       large_inflow |-> RDiv(f72.v, RInt(UnitDivisor)),
                       large_ratio |-> f75.v,
                       max_stock |-> ItemGet(item, "f128", Str(Unknown)).s]]

\* the loop of lines 220-240 over diff[i..]: an entry whose conversion raises
\* ValueError or TypeError is skipped; an entry that is no dict has no get,
\* and the AttributeError leaves the function
RECURSIVE ParseItems(_, _, _)
ParseItems(diff, i, acc) ==
    IF i > Len(diff) THEN [raised |-> "none", all |-> acc]
    ELSE IF ~diff[i].dict THEN [raised |-> "AttributeError", all |-> acc]
    ELSE LET r == ApiSector(diff[i])
         IN  ParseItems(diff, i + 1, IF r.ok THEN Append(acc, r.rec) ELSE acc)

\* the kinds of response.json() with no data, or no data.diff, in them
NoDiffKinds == {"no_data", "no_diff", "empty_diff"}

\* parse_api_response(data), lines 209-243
parse_api_response(data) ==
    IF data.kind \in NoDiffKinds THEN [raised |-> "none", all |-> <<>>]
    ELSE IF data.kind = "not_object" THEN [raised |-> "AttributeError", all |-> <<>>]
    ELSE ParseItems(data.diff, 1, <<>>)

\* what requests.get, raise_for_status and response.json() raise, lines 190-204
RequestFailures == {"timeout", "connection_error", "http_error", "not_json"}

\* the placeholder sectors an earlier version of the crawler returned when it
\* had no data
MockSectors == [i \in 1 .. min_data_rows |-> Sector(<<"mock", Digits[i + 1]>>, RInt(i), RInt(i))]

\* fetch_sectors_from_api(), a mutation: placeholder sectors when the request
\* or the parsing fails
fetch_sectors_from_api_mock(resp) ==
    IF resp.kind \in RequestFailures THEN MockSectors
    ELSE LET r == parse_api_response(resp)
         IN  IF r.raised # "none" THEN MockSectors ELSE r.all

\* fetch_sectors_from_api(), lines 170-207: every exception gives []
fetch_sectors_from_api(resp) ==
    IF resp.kind \in RequestFailures THEN <<>>
    ELSE LET r == parse_api_response(resp)
         IN  IF r.raised # "none" THEN <<>> ELSE r.all

----------------------------------------------------------------------------
\* fetch_sectors_from_html and try_multiple_extraction_methods (245-309)
\*
\* The HTML page is modelled by what each of the three HTML strategies finds
\* in it: the number of rows extract_data_from_tables accepts, of matches
\* extract_data_from_page_text converts, of rows extract_with_pandas keeps.

\* EXTRACTION_CONFIG['extraction_methods'], a mutation: nothing after the
\* table strategy
ExtractionMethodsTableOnly == <<"api", "html_table">>

\* EXTRACTION_CONFIG['extraction_methods'], line 97
extraction_methods == <<"api", "html_table", "page_text", "pandas">>

\* the i-th record a strategy finds in the page
PageSector(method, i) == Sector(<<method, Digits[i + 1]>>, RInt(i), RZero)

\* extract_data_from_tables(soup), lines 329-384
extract_data_from_tables(rows) == [i \in 1 .. rows |-> PageSector("html_table", i)]
\* extract_data_from_page_text(page_text), lines 443-473
extract_data_from_page_text(rows) == [i \in 1 .. rows |-> PageSector("page_text", i)]
\* extract_with_pandas(page_text), lines 295-309
extract_with_pandas(rows) == [i \in 1 .. rows |-> PageSector("pandas", i)]

\* the branches of lines 279-284
ExtractWith(method, rows) ==
    CASE method = "html_table" -> extract_data_from_tables(rows)
      [] method = "page_text" -> extract_data_from_page_text(rows)
      [] method = "pandas" -> extract_with_pandas(rows)

\* if len(all_sectors) >= min_data_rows: break (line 287), a mutation: the
\* loop never stops early
EnoughNever(all) == FALSE

\* if len(all_sectors) >= EXTRACTION_CONFIG['min_data_rows'], line 287
Enough(all) == Len(all) >= min_data_rows

----------------------------------------------------------------------------
\* crawl_eastmoney_fund_flow under @retry_with_backoff(max_retries=3,
\* base_delay=1.0, max_delay=10.0) (140-168)

NoResponse == [kind |-> "none", diff |-> <<>>]
NoPage == [kind |-> "none"]

\* raise ValueError(...), line 165
InsufficientData == [op |-> "error", type |-> "ValueError"]

CrawlIdle ==
    /\ pc = "idle"
    /\ all_sectors = <<>>
    /\ api_response = NoResponse
    /\ html_response = NoPage
    /\ ran = <<>>
    /\ handed = <<>>

\* an entry of data.diff: the fields of line 48 that parse_api_response reads
ApiItem(name, f66, f72) ==
    [dict |-> TRUE, f14 |-> name, f3 |-> Num(RInt(1)), f66 |-> f66, f69 |-> Num(RZero),
     f72 |-> f72, f75 |-> Num(RZero), f128 |-> Str(<<"m">>)]

\* an entry of data.diff that is null
NullItem ==
    [dict |-> FALSE, f14 |-> Absent, f3 |-> Absent, f66 |-> Absent, f69 |-> Absent,
     f72 |-> Absent, f75 |-> Absent, f128 |-> Absent]

\* an entry of data.diff with none of the fields: {}
EmptyItem ==
    [dict |-> TRUE, f14 |-> Absent, f3 |-> Absent, f66 |-> Absent, f69 |-> Absent,
     f72 |-> Absent, f75 |-> Absent, f128 |-> Absent]

\* the i-th entry of a payload, of one of three kinds: A with f66 + f72 =
\* 10000, B with a smaller f66 and f66 + f72 = 15000, and D whose f66 is the
\* placeholder "-"
ItemKinds == {"A", "B", "D"}
ItemOf(kind, i) ==
    LET name == Str(<<"S", Digits[i + 1]>>)
    IN  CASE kind = "A" -> ApiItem(name, Num(RInt(10000)), Num(RZero))
          [] kind = "B" -> ApiItem(name, Num(RInt(5000)), Num(RInt(10000)))
          [] kind = "D" -> ApiItem(name, Str(<<"-">>), Num(RInt(10000)))

Diffs == UNION {[1 .. n -> ItemKinds] : n \in 1 .. MaxItems}

\* payloads of 6 entries of kind A but for some that are null or empty
OddDiffs ==
    {[i \in 1 .. min_data_rows + 1 |-> IF i \in at THEN odd ELSE ItemOf("A", i)] :
        at \in {{1}, {min_data_rows + 1}, 1 .. min_data_rows + 1}, odd \in {NullItem, EmptyItem}}

\* what the request of lines 190-204 can bring
ApiResponses ==
    {[kind |-> k, diff |-> <<>>] : k \in RequestFailures \cup NoDiffKinds \cup {"not_object"}}
    \cup {[kind |-> "json", diff |-> [i \in 1 .. Len(d) |-> ItemOf(d[i], i)]] : d \in Diffs}
    \cup {[kind |-> "json", diff |-> d] : d \in OddDiffs}

CrawlInit ==
    /\ max_retries = 3
    /\ base_delay = RInt(1)
    /\ max_delay = RInt(10)
    /\ fails_first = 0
    /\ attempt = 0
    /\ delay = RZero
    /\ slept = 0
    /\ calls = 0
    /\ outcome = Running
    /\ pc = "start"
    /\ all_sectors = <<>>
    /\ api_response = NoResponse
    /\ html_response = NoPage
    /\ ran = <<>>
    /\ handed = <<>>
    /\ FieldIdle
    /\ RankIdle
    /\ CleanIdle
    /\ LaterIdle

\* the wrapper calls crawl_eastmoney_fund_flow, which runs to line 156:
\* all_sectors = fetch_sectors_from_api()
FetchApi ==
    /\ InLoop
    /\ pc = "start"
    /\ \E resp \in ApiResponses :
          /\ api_response' = resp
          /\ all_sectors' = fetch_sectors_from_api(resp)
    /\ ran' = <<[method |-> "api", count |-> Len(all_sectors')]>>
    /\ calls' = calls + 1
    /\ pc' = "api_done"
    /\ UNCHANGED <<max_retries, base_delay, max_delay, attempt, delay, slept, outcome, fails_first>>
    /\ UNCHANGED <<html_response, handed, field_vars, rank_vars, clean_vars, later_vars>>

\* lines 159-161 and 249-275: the API gave fewer than 5 records, and
\* fetch_sectors_from_html requests the page. A RequestException makes it
\* return []; otherwise try_multiple_extraction_methods starts with
\* all_sectors = [] and its iteration for 'api', which has no branch
FetchHtmlPage ==
    /\ pc = "api_done"
    /\ Len(all_sectors) < min_data_rows
    /\ \E kind \in {"request_error", "ok"} :
          /\ html_response' = [kind |-> kind]
          /\ pc' = IF kind = "ok" /\ ~Enough(<<>>) THEN "extract" ELSE "html_done"
    /\ all_sectors' = <<>>
    /\ api_response' = NoResponse
    /\ UNCHANGED <<retry_vars, ran, handed, field_vars, rank_vars, clean_vars, later_vars>>

\* one iteration of the loop of lines 278-291 for an HTML method, the one after
\* those in ran: the strategy's output replaces all_sectors, and the loop
\* breaks when it is enough or the methods are used up
TryMethod ==
    /\ pc = "extract"
    /\ LET method == extraction_methods[Len(ran) + 1]
       IN  \E rows \in 0 .. MaxItems :
              /\ all_sectors' = ExtractWith(method, rows)
              /\ ran' = Append(ran, [method |-> method, count |-> Len(all_sectors')])
    /\ pc' = IF Enough(all_sectors') \/ Len(ran') = Len(extraction_methods)
             THEN "html_done" ELSE "extract"
    /\ UNCHANGED <<retry_vars, api_response, html_response, handed, field_vars, rank_vars, clean_vars, later_vars>>

\* lines 164-165: still fewer than 5 records, the call raises ValueError into
\* the wrapper, which re-raises or sleeps and calls again
CrawlRaises ==
    /\ pc = "html_done"
    /\ Len(all_sectors) < min_data_rows
    /\ WrapperExcept(InsufficientData)
    /\ pc' = IF outcome'.kind = "raised" THEN "done" ELSE "start"
    /\ all_sectors' = <<>>
    /\ api_response' = NoResponse
    /\ html_response' = NoPage
    /\ ran' = <<>>
    /\ UNCHANGED <<calls, fails_first, handed, field_vars, rank_vars, clean_vars, later_vars>>

\* line 168: return process_sectors_data(all_sectors), which sorts the list
\* in place and saves the snapshot; the wrapper returns the pair
CrawlReturns ==
    /\ pc \in {"api_done", "html_done"}
    /\ Len(all_sectors) >= min_data_rows
    /\ handed' = all_sectors
    /\ LET r == process_sectors_data(all_sectors)
       IN  /\ all_sectors' = r.all
           /\ saved' = save_crawl_data(r.all, r.top)
           /\ WrapperReturn(r)
    /\ pc' = "done"
    /\ UNCHANGED <<calls, fails_first, api_response, html_response, ran, rank_in, rank_out, field_vars, clean_vars, later_vars>>

CrawlNext == FetchApi \/ FetchHtmlPage \/ TryMethod \/ CrawlRaises \/ CrawlReturns

SpecCrawl == CrawlInit /\ [][CrawlNext]_vars

\* the records the responses of the current attempt hold: the entries of the
\* API payload that convert, or the rows the last HTML strategy found
ReceivedRecords ==
    IF ran = <<>> THEN {}
    ELSE IF ran[Len(ran)].method = "api"
    THEN {ApiSector(api_response.diff[i]).rec :
            i \in {k \in 1 .. Len(api_response.diff) :
                     api_response.diff[k].dict /\ ApiSector(api_response.diff[k]).ok}}
    ELSE {PageSector(ran[Len(ran)].method, i) : i \in 1 .. ran[Len(ran)].count}

\* C3: the crawl under its retry wrapper ends in one of two ways. It returns
\* the pair (top_sectors, all_sectors) where all_sectors has at least 5
\* records, each derived from a record of the API or HTML response of the
\* attempt that succeeded, in ranked order, and top_sectors is its prefix; or
\* it raises after the last allowed attempt. It never returns None, an empty
\* result or records no response held.
C3_NoFabricatedData ==
    /\ outcome.kind \in {"running", "returned", "raised"}
    /\ pc = "done" <=> outcome.kind \in {"returned", "raised"}
    /\ outcome.kind = "returned" =>
          /\ outcome.val # None
          /\ outcome.val.py = "tuple"
          /\ Len(outcome.val.all) >= 5
          /\ \A i \in 1 .. Len(outcome.val.all) : outcome.val.all[i] \in ReceivedRecords
          /\ \A i \in 1 .. Len(outcome.val.all) : \A j \in i .. Len(outcome.val.all) :
                RLe(InflowKey(outcome.val.all[j]), InflowKey(outcome.val.all[i]))
          /\ outcome.val.top = SubSeq(outcome.val.all, 1, 5)
    /\ outcome.kind = "raised" =>
          /\ attempt = max_retries - 1
          /\ calls = max_retries
          /\ outcome.val = InsufficientData

\* C3's case: two attempts found too little, the third returns six records of
\* its API payload, the entry with the larger sum first
C3_Witness ==
    /\ outcome.kind = "returned"
    /\ calls = 3
    /\ slept = 2
    /\ ran = <<[method |-> "api", count |-> 6]>>
    /\ Len(outcome.val.top) = 5
    /\ outcome.val.all[1].name = <<"S", "6">>
    /\ outcome.val.all[1] \in ReceivedRecords

\* what the strategy of an entry of ran returned
StrategyOutput(r) ==
    IF r.method = "api" THEN fetch_sectors_from_api(api_response)
    ELSE ExtractWith(r.method, r.count)

\* C4: in one attempt the strategies run in the order api, html_table,
\* page_text, pandas; a strategy runs only if every strategy before it gave
\* fewer than 5 records; and the list handed to process_sectors_data is the
\* output of the first strategy that gave at least 5.
C4_StrategyPriority ==
    /\ Len(ran) <= Len(extraction_methods)
    /\ \A i \in 1 .. Len(ran) : ran[i].method = extraction_methods[i]
    /\ \A i \in 1 .. Len(ran) : \A j \in 1 .. i - 1 : ran[j].count < 5
    /\ outcome.kind = "returned" =>
          /\ \E i \in 1 .. Len(ran) : ran[i].count >= 5
          /\ LET first == CHOOSE i \in 1 .. Len(ran) :
                              /\ ran[i].count >= 5
                              /\ \A j \in 1 .. i - 1 : ran[j].count < 5
             IN  handed = StrategyOutput(ran[first])

\* C4's case: the API and the table strategy gave too little, the text
\* strategy gave 5 records, the pandas strategy did not run
C4_Witness ==
    /\ outcome.kind = "returned"
    /\ Len(ran) = 3
    /\ ran[1].count = 4
    /\ ran[2].count = 4
    /\ ran[3] = [method |-> "page_text", count |-> 5]
    /\ handed = extract_data_from_page_text(5)

\* a payload of at least 6 entries, each a dict with numbers in f66 and f72
WellFormedPayload(resp) ==
    /\ resp.kind = "json"
    /\ Len(resp.diff) >= 6
    /\ \A i \in 1 .. Len(resp.diff) :
          /\ resp.diff[i].dict
          /\ resp.diff[i].f66.t = "num"
          /\ resp.diff[i].f72.t = "num"

\* f66 + f72 of an entry of the payload
RawSum(item) == RAdd(item.f66.v, item.f72.v)

----------------------------------------------------------------------------
\* SpecRetry: the wrapper around an operation that raises on its first
\* fails_first invocations and succeeds on every later one

OpResult(i) == [op |-> "result", call |-> i]
OpError(i) == [op |-> "error", call |-> i]

RetryInit ==
    /\ max_retries \in 0 .. MaxRetriesBound
    /\ base_delay \in {RInt(1), RInt(3)}
    /\ max_delay = RInt(10)
    /\ fails_first \in 0 .. MaxRetriesBound + 1
    /\ attempt = 0
    /\ delay = RZero
    /\ slept = 0
    /\ calls = 0
    /\ outcome = Running
    /\ FieldIdle
    /\ RankIdle
    /\ CleanIdle
    /\ CrawlIdle
    /\ LaterIdle

\* func(*args, **kwargs) returns
OpSucceeds ==
    /\ InLoop
    /\ calls >= fails_first
    /\ calls' = calls + 1
    /\ WrapperReturn(OpResult(calls + 1))
    /\ UNCHANGED <<fails_first, field_vars, rank_vars, clean_vars, crawl_vars, later_vars>>

\* func(*args, **kwargs) raises
OpRaises ==
    /\ InLoop
    /\ calls < fails_first
    /\ calls' = calls + 1
    /\ WrapperExcept(OpError(calls + 1))
    /\ UNCHANGED <<fails_first, field_vars, rank_vars, clean_vars, crawl_vars, later_vars>>

RetryNext == OpSucceeds \/ OpRaises \/ WrapperFallsThrough

SpecRetry == RetryInit /\ [][RetryNext]_vars

\* C1: the wrapper around an operation that raises on its first k invocations
\* and then succeeds, with k < max_retries, never raises to its caller, invokes
\* the operation at most k+1 times, returns as soon as invocation k+1 has
\* succeeded, and what it returns is exactly that invocation's result.
C1_RetryReturnsSuccess ==
    (outcome.kind # "idle" /\ fails_first < max_retries) =>
        /\ outcome.kind \in {"running", "returned"}
        /\ calls <= fails_first + 1
        /\ (calls = fails_first + 1) <=> (outcome.kind = "returned")
        /\ outcome.kind = "returned" => outcome.val = OpResult(fails_first + 1)
        /\ outcome.kind = "running" => attempt = calls

\* C1's case: two failures, then the third of three allowed invocations succeeds
C1_Witness ==
    /\ max_retries = 3
    /\ fails_first = 2
    /\ calls = 3
    /\ outcome = [kind |-> "returned", val |-> OpResult(3)]

\* C2: the wrapper around an operation that raises on every invocation it gets,
\* with max_retries = n >= 1, never returns a value, invokes the operation at
\* most n times, raises as soon as invocation n has failed, raises that
\* invocation's failure, and has slept once after each failure but the last.
C2_RetryExhausted ==
    (outcome.kind # "idle" /\ max_retries >= 1 /\ fails_first >= max_retries) =>
        /\ outcome.kind \in {"running", "raised"}
        /\ calls <= max_retries
        /\ (calls = max_retries) <=> (outcome.kind = "raised")
        /\ outcome.kind = "raised" => outcome.val = OpError(max_retries) /\ slept = max_retries - 1
        /\ outcome.kind = "running" => slept = calls

\* C2's case: three failures of three allowed invocations
C2_Witness ==
    /\ max_retries = 3
    /\ fails_first >= 3
    /\ calls = 3
    /\ slept = 2
    /\ outcome = [kind |-> "raised", val |-> OpError(3)]

----------------------------------------------------------------------------
\* SpecField: extract_float_value applied to a text token

RetryIdle ==
    /\ max_retries = 0
    /\ base_delay = RInt(1)
    /\ max_delay = RInt(10)
    /\ fails_first = 0
    /\ attempt = 0
    /\ delay = RZero
    /\ slept = 0
    /\ calls = 0
    /\ outcome = [kind |-> "idle", val |-> None]

FieldInit ==
    /\ text \in FieldTokens
    /\ fx_out = NotCalled
    /\ RetryIdle
    /\ RankIdle
    /\ CleanIdle
    /\ CrawlIdle
    /\ LaterIdle

ExtractFloat ==
    /\ fx_out = NotCalled
    /\ fx_out' = extract_float_value(text)
    /\ UNCHANGED <<text, retry_vars, rank_vars, clean_vars, crawl_vars, later_vars>>

FieldNext == ExtractFloat

SpecField == FieldInit /\ [][FieldNext]_vars

\* s is a numeral: an optional sign, digits, and optionally a point and digits
IsNumeral(s) ==
    LET b == IF s # <<>> /\ IsSign(s[1]) THEN Tail(s) ELSE s
    IN  \/ b # <<>> /\ AllDigits(b)
        \/ \E k \in 2 .. Len(b) - 1 :
              /\ b[k] = "."
              /\ AllDigits(SubSeq(b, 1, k - 1))
              /\ AllDigits(SubSeq(b, k + 1, Len(b)))

\* text[i..j] is the first numeral of text: none starts before i, and none
\* that starts at i is longer
IsFirstNumeral(i, j) ==
    /\ IsNumeral(SubSeq(text, i, j))
    /\ \A a \in 1 .. Len(text) : \A b \in a .. Len(text) :
          IsNumeral(SubSeq(text, a, b)) => a > i \/ (a = i /\ b <= j)

\* C8: extract_float_value raises on no text token; it returns the value of
\* the first numeral of the token, and 0.0 for a token with no digit, so for
\* the placeholders "-", "--", "None", "" and for "abc".
C8_ExtractFloat ==
    fx_out # NotCalled =>
        /\ fx_out.raised = "none"
        /\ IsRat(fx_out.val)
        /\ \A i \in 1 .. Len(text) : \A j \in i .. Len(text) :
              IsFirstNumeral(i, j) => fx_out.val = PyFloatStr(SubSeq(text, i, j)).v
        /\ (\A k \in 1 .. Len(text) : ~IsDigit(text[k])) => fx_out.val = RZero
        /\ text \in {<<"-">>, <<"-", "-">>, <<"N", "o", "n", "e">>, <<>>, <<"a", "b", "c">>} => fx_out.val = RZero
        /\ text = <<"+", "1", ".", "2", "3", "%">> => fx_out.val = Rat(123, 100)
        /\ text = <<"1", "2", ".", "3", "Y">> => fx_out.val = Rat(123, 10)
        /\ text = <<"-", "5", ".", "5">> => fx_out.val = Rat(-11, 2)

\* C8's case: a signed numeral inside other characters has been extracted
C8_Witness ==
    /\ text = <<"a", "-", "5", "%">>
    /\ fx_out = [raised |-> "none", val |-> RInt(-5)]

----------------------------------------------------------------------------
\* SpecRank: process_sectors_data applied to a list of sector records

\* four sectors; B and C differ in both inflows and have the same sum
RankSectors == {
    Sector(<<"A">>, RInt(1), Rat(1, 2)), Sector(<<"B">>, RInt(1), RZero),
    Sector(<<"C">>, Rat(1, 2), Rat(1, 2)), Sector(<<"D">>, Rat(-1, 2), RInt(1)) }

RankInit ==
    /\ rank_in \in UNION {[1 .. n -> RankSectors] : n \in 0 .. MaxRankLen}
    /\ rank_out = None
    /\ saved = NotSaved
    /\ RetryIdle
    /\ FieldIdle
    /\ CleanIdle
    /\ CrawlIdle
    /\ LaterIdle

RankSectorsCall ==
    /\ rank_out = None
    /\ rank_out' = process_sectors_data(rank_in)
    /\ saved' = save_crawl_data(rank_out'.all, rank_out'.top)
    /\ UNCHANGED <<rank_in, retry_vars, field_vars, clean_vars, crawl_vars, later_vars>>

RankNext == RankSectorsCall

SpecRank == RankInit /\ [][RankNext]_vars

\* how many times x occurs in s
Occurrences(s, x) == Cardinality({i \in 1 .. Len(s) : s[i] = x})

\* the elements of s whose inflow sum is k, in their order in s
WithKey(s, k) == LET Test(x) == InflowKey(x) = k IN SelectSeq(s, Test)

\* C5: the full list process_sectors_data returns is a permutation of its
\* input in non-increasing order of super_large_inflow + large_inflow, the top
\* list is the first min(5, n) elements of it, and an empty input gives an
\* empty top list.
C5_RankerOrdering ==
    rank_out # None =>
        /\ Len(rank_out.all) = Len(rank_in)
        /\ \A x \in RankSectors : Occurrences(rank_out.all, x) = Occurrences(rank_in, x)
        /\ \A i \in 1 .. Len(rank_out.all) : \A j \in i .. Len(rank_out.all) :
              RLe(InflowKey(rank_out.all[j]), InflowKey(rank_out.all[i]))
        /\ Len(rank_out.top) = Min(5, Len(rank_in))
        /\ \A i \in 1 .. Len(rank_out.top) : rank_out.top[i] = rank_out.all[i]
        /\ rank_in = <<>> => rank_out.top = <<>>

\* C5's case: six sectors given out of order, five of them returned as the top
C5_Witness ==
    /\ rank_out # None
    /\ Len(rank_in) = 6
    /\ rank_in[1].name = <<"D">>
    /\ rank_in[6].name = <<"A">>
    /\ Len(rank_out.top) = 5
    /\ rank_out.top[1].name = <<"A">>

\* C6: sectors with the same super_large_inflow + large_inflow keep their
\* input order in the ranked list and in the top list.
C6_RankerStable ==
    rank_out # None =>
        /\ \A x \in RankSectors :
              WithKey(rank_out.all, InflowKey(x)) = WithKey(rank_in, InflowKey(x))
        /\ \A i \in 1 .. Len(rank_out.top) : \A j \in i + 1 .. Len(rank_out.top) :
              (InflowKey(rank_out.top[i]) = InflowKey(rank_out.top[j]) /\ rank_out.top[i] # rank_out.top[j]) =>
                  \E a \in 1 .. Len(rank_in) : \E b \in a + 1 .. Len(rank_in) :
                      rank_in[a] = rank_out.top[i] /\ rank_in[b] = rank_out.top[j]

\* C6's case: C came before B in the input, both have the sum 1, and C is
\* ranked before B
C6_Witness ==
    /\ rank_out # None
    /\ rank_in = <<Sector(<<"C">>, Rat(1, 2), Rat(1, 2)), Sector(<<"A">>, RInt(1), Rat(1, 2)), Sector(<<"B">>, RInt(1), RZero)>>
    /\ rank_out.top[2].name = <<"C">>
    /\ rank_out.top[3].name = <<"B">>

----------------------------------------------------------------------------
\* SpecClean: clean_stock_data applied to a stock dict

\* what an endpoint or a caller can put under a numeric key
RawValues == {
    Absent, Null, Str(<<>>), Str(<<"-">>), Str(<<"-", "-">>), Str(<<"N", "o", "n", "e">>),
    Str(<<"a", "b", "c">>), Str(<<"7", ".", "5">>), Num(RZero), Num(RInt(5)), Num(RInt(-3)),
    Num(RInt(999999)), Num(RInt(1000000)) }

PriceValues == {Absent, Str(<<"-">>), Num(RZero), Num(RInt(5)), Num(RInt(10)), Num(RInt(20)), Num(RInt(1000000))}

ProbeFields == {"volume", "amount", "turnover_rate", "volume_ratio", "market_cap", "circulation_cap", "main_inflow", "pe_ratio"}

\* a dict with a code and a name, any prices, and any value under one more key
StockDict(p, h, l, f, x) ==
    [k \in StockKeys |->
        CASE k = "code" -> Str(<<"6", "0", "0">>)
          [] k = "name" -> Str(<<"n">>)
          [] k = "price" -> p
          [] k = "high_price" -> h
          [] k = "low_price" -> l
          [] k = f -> x
          [] OTHER -> Absent]

CleanInit ==
    /\ \E p \in PriceValues, h \in PriceValues, l \in PriceValues, f \in ProbeFields, x \in RawValues :
          stock_in = StockDict(p, h, l, f, x)
    /\ stock_info = stock_in
    /\ cleaned = FALSE
    /\ clean_calls = 0
    /\ RetryIdle
    /\ FieldIdle
    /\ RankIdle
    /\ CrawlIdle
    /\ LaterIdle

CleanStock ==
    /\ ~cleaned
    /\ stock_info' = clean_stock_data(stock_info)
    /\ cleaned' = TRUE
    /\ clean_calls' = 1
    /\ UNCHANGED <<stock_in, retry_vars, field_vars, rank_vars, crawl_vars, later_vars>>

CleanNext == CleanStock

SpecClean == CleanInit /\ [][CleanNext]_vars

\* the numeric StockRecord fields the claim lists that the stock dict carries
NumericStockFields == {
    "price", "high_price", "low_price", "open_price", "pre_close_price", "change_rate",
    "volume", "amount", "turnover_rate", "volume_ratio", "pe_ratio", "pb_ratio",
    "market_cap", "circulation_cap", "main_inflow", "main_ratio",
    "super_large_inflow", "super_large_ratio", "large_inflow", "large_ratio" }

\* x is a number, or a str that spells one
IsNumeric(x) == x.t = "num" \/ (x.t = "str" /\ IsNumeral(x.s))

NumericValue(x) == IF x.t = "num" THEN x.v ELSE PyFloatStr(x.s).v

\* C9: after clean_stock_data every numeric field that was given a
\* placeholder or another non-numeric value holds 0.0, every one that was
\* given a number above 999999 holds 0.0, and every other one holds the
\* number it was given, as a float.
C9_CleanNormalizes ==
    cleaned =>
        \A k \in NumericStockFields :
            stock_in[k] # Absent =>
                stock_info[k] =
                    IF ~IsNumeric(stock_in[k]) THEN Num(RZero)
                    ELSE IF RLt(RInt(999999), NumericValue(stock_in[k])) THEN Num(RZero)
                    ELSE Num(NumericValue(stock_in[k]))

----------------------------------------------------------------------------
\* get_sector_stocks (eastmoney_fund_flow.py 606-732)

\* the most entries the diff of a stock-list response has
MaxStockItems == 2

\* api_endpoints = [STOCK_API_CONFIG['base_url']] * 5, line 614
NumEndpoints == 5
\* fs_param_variations, lines 617-621, for sector code c
fs_param_variations == <<"b:c", "b:BKc", "m:90 t:2 f:BKc">>
\* the number of iterations of the two loops of lines 631-632
NumCombinations == NumEndpoints * Len(fs_param_variations)
\* the filter of the k-th iteration
FsParamOf(k) == fs_param_variations[((k - 1) % Len(fs_param_variations)) + 1]

\* the keys of an entry of diff that the model gives values; stock.get of any
\* other key gives its default
StockItemKeys == {"f12", "f14", "f2", "f3", "f6", "f62", "f128", "f66", "f69", "f72", "f75"}

\* stock.get(key, default), lines 679-703
StockGet(item, key, default) ==
    IF key \in StockItemKeys /\ item.v[key] # Absent THEN item.v[key] ELSE default

\* float(stock.get(key, 0)) if stock.get(key) != '-' else 0, lines 699-703
RatioOf(item, key) ==
    IF StockGet(item, key, Null) # Str(<<"-">>) THEN PyFloat(StockGet(item, key, Num(RZero)))
    ELSE Ok(RZero)

\* float(stock.get(key, 0)) / 10000, lines 698-702
ScaledDown(f) == IF f.ok THEN Ok(RDiv(f.v, RInt(UnitDivisor))) ELSE f

InflowOf(item, key) == ScaledDown(PyFloat(StockGet(item, key, Num(RZero))))

\* the six float() conversions of lines 698-703 for one entry of diff
StockFloatKeys == {"main_inflow", "super_large_inflow", "large_inflow", "main_ratio", "super_large_ratio", "large_ratio"}

StockFloats(item) ==
    [k \in StockFloatKeys |->
        CASE k = "main_inflow" -> InflowOf(item, "f62")
          [] k = "super_large_inflow" -> InflowOf(item, "f66")
          [] k = "large_inflow" -> InflowOf(item, "f72")
          [] k = "main_ratio" -> RatioOf(item, "f128")
          [] k = "super_large_ratio" -> RatioOf(item, "f69")
          [] k = "large_ratio" -> RatioOf(item, "f75")]

\* the keys whose conversion raised
FailedFloats(conv) == {k \in StockFloatKeys : ~conv[k].ok}

\* the dict literal of lines 677-704, given its conversions, or the exception
\* one of them raised
StockInfoFrom(item, conv) ==
    IF FailedFloats(conv) # {}
    THEN [ok |-> FALSE, err |-> conv[CHOOSE k \in FailedFloats(conv) : TRUE].err, info |-> EmptyStock]
    ELSE [ok |-> TRUE, err |-> "none",
          info |-> [k \in StockKeys |->
              CASE k = "code" -> StockGet(item, "f12", Str(<<>>))
                [] k = "name" -> StockGet(item, "f14", Str(<<>>))
                [] k = "price" -> StockGet(item, "f2", Num(RZero))
                [] k = "change_rate" -> StockGet(item, "f3", Num(RZero))
                [] k = "amount" -> StockGet(item, "f6", Num(RZero))
                [] k \in StockFloatKeys -> Num(conv[k].v)
                [] k \in {"change_amount", "volume", "turnover_rate", "volume_ratio", "pe_ratio",
                          "pb_ratio", "market_cap", "circulation_cap"} -> Num(RZero)
                [] OTHER -> Absent]]

\* the dict of lines 677-704 for one entry of diff, or the exception a float()
\* in it raised
StockInfoOf(item) == StockInfoFrom(item, StockFloats(item))

\* if stock_info['code'] and stock_info['name'], line 707
HasCodeAndName(info) == info["code"] # Str(<<>>) /\ info["name"] # Str(<<>>)

\* except (ValueError, TypeError, KeyError), line 716
RecordErrors == {"ValueError", "TypeError", "KeyError"}

\* the loop of lines 674-718 over diff[i..]: an entry that is no dict has no
\* get, and its AttributeError is not one of RecordErrors
RECURSIVE MapStocks(_, _, _)

\* lines 705-718 for the entry diff[i], whose dict or exception is r
MapRecord(diff, i, acc, r) ==
    IF ~r.ok
    THEN IF r.err \in RecordErrors THEN MapStocks(diff, i + 1, acc)
         ELSE [raised |-> r.err, stocks |-> acc]
    ELSE MapStocks(diff, i + 1,
                   IF HasCodeAndName(r.info) THEN Append(acc, clean_stock_data(r.info)) ELSE acc)

MapStocks(diff, i, acc) ==
    IF i > Len(diff) THEN [raised |-> "none", stocks |-> acc]
    ELSE IF ~diff[i].dict THEN [raised |-> "AttributeError", stocks |-> acc]
    ELSE MapRecord(diff, i, acc, StockInfoOf(diff[i]))

\* the try body of lines 633-723 for one response: the exception it raises,
\* or the stocks it collected (none after a continue)
TryBody(resp) ==
    IF resp.kind \in RequestFailures THEN [raised |-> resp.kind, stocks |-> <<>>]
    ELSE IF resp.kind = "not_object" THEN [raised |-> "AttributeError", stocks |-> <<>>]
    ELSE IF resp.kind \in NoDiffKinds THEN [raised |-> "none", stocks |-> <<>>]
    ELSE MapStocks(resp.diff, 1, <<>>)

\* except Exception (line 725), a mutation: only the failures of the request
\* are caught
CaughtRequestOnly(e) == e \in RequestFailures \ {"not_json"}

\* except Exception as e: ... continue, lines 725-728
Caught(e) == TRUE

\* an entry of diff
StockItem(code, name, f2, f62, f128) ==
    [dict |-> TRUE,
     v |-> [k \in StockItemKeys |->
              CASE k = "f12" -> code
                [] k = "f14" -> name
                [] k = "f2" -> f2
                [] k = "f62" -> f62
                [] k = "f128" -> f128
                [] k = "f3" -> Num(RInt(1))
                [] k = "f66" -> Num(RInt(10000))
                [] OTHER -> Absent]]

NullStockItem == [dict |-> FALSE, v |-> [k \in StockItemKeys |-> Absent]]

\* the i-th entry of a payload, of one of four kinds: G with every field in
\* order, M whose f62 is the placeholder "-", N without a code, and P whose
\* price and f128 are the placeholder
StockItemKinds == {"G", "M", "N", "P"}
StockItemOf(kind, i) ==
    LET code == Str(<<"6", "0", Digits[i + 1]>>)
        name == Str(<<"n", Digits[i + 1]>>)
    IN  CASE kind = "G" -> StockItem(code, name, Num(RInt(12)), Num(RInt(20000)), Num(RInt(3)))
          [] kind = "M" -> StockItem(code, name, Num(RInt(12)), Str(<<"-">>), Num(RInt(3)))
          [] kind = "N" -> StockItem(Absent, name, Num(RInt(12)), Num(RInt(20000)), Num(RInt(3)))
          [] kind = "P" -> StockItem(code, name, Str(<<"-">>), Num(RInt(5000)), Str(<<"-">>))

StockDiffs == UNION {[1 .. n -> StockItemKinds] : n \in 1 .. MaxStockItems}

\* what the request of lines 649-654 can bring
ListResponses ==
    {[kind |-> k, diff |-> <<>>] : k \in RequestFailures \cup NoDiffKinds \cup {"not_object"}}
    \cup {[kind |-> "json", diff |-> [i \in 1 .. Len(d) |-> StockItemOf(d[i], i)]] : d \in StockDiffs}
    \cup {[kind |-> "json", diff |-> <<StockItemOf("G", 1), NullStockItem>>],
          [kind |-> "json", diff |-> <<StockItemOf("G", 1), NullStockItem, StockItemOf("G", 3)>>],
          [kind |-> "json", diff |-> <<StockItemOf("G", 1), StockItemOf("M", 2), StockItemOf("P", 3)>>]}

ListInit ==
    /\ combo = 0
    /\ list_response = [kind |-> "none", diff |-> <<>>]
    /\ list_out = [kind |-> "running", val |-> <<>>]
    /\ RetryIdle
    /\ FieldIdle
    /\ RankIdle
    /\ CleanIdle
    /\ CrawlIdle
    /\ TailIdle
    /\ HistIdle
    /\ FactorIdle
    /\ SelectIdle

\* one iteration of the loops of lines 631-728: the request, and the return
\* of line 723 when the combination gave stocks
TryCombination ==
    /\ list_out.kind = "running"
    /\ combo < NumCombinations
    /\ combo' = combo + 1
    /\ \E resp \in ListResponses :
          /\ list_response' = resp
          /\ LET r == TryBody(resp)
             IN  list_out' =
                    IF r.raised # "none"
                    THEN IF Caught(r.raised) THEN list_out
                         ELSE [kind |-> "raised", val |-> <<>>]
                    ELSE IF r.stocks # <<>> THEN [kind |-> "returned", val |-> r.stocks]
                    ELSE list_out
    /\ UNCHANGED <<retry_vars, field_vars, rank_vars, clean_vars, crawl_vars, hist_vars, factor_vars, select_vars, tail_vars>>

\* lines 730-732: every combination has been tried, return []
AllCombinationsFailed ==
    /\ list_out.kind = "running"
    /\ combo = NumCombinations
    /\ list_out' = [kind |-> "returned", val |-> <<>>]
    /\ UNCHANGED <<combo, list_response>>
    /\ UNCHANGED <<retry_vars, field_vars, rank_vars, clean_vars, crawl_vars, hist_vars, factor_vars, select_vars, tail_vars>>

ListNext == TryCombination \/ AllCombinationsFailed

SpecList == ListInit /\ [][ListNext]_vars

\* the response of the last request gave no usable record
NoUsableRecord(resp) == TryBody(resp).raised # "none" \/ TryBody(resp).stocks = <<>>

\* C11: get_sector_stocks never raises to its caller, whatever the endpoint
\* does: it is running, or it has returned a list. The list is empty exactly
\* when every one of the combinations failed or gave no usable record, and
\* then all 15 have been tried.
C11_StockFetcherNeverRaises ==
    /\ list_out.kind \in {"running", "returned"}
    /\ (list_out.kind = "running" /\ combo > 0) => NoUsableRecord(list_response)
    /\ list_out.kind = "returned" =>
          IF NoUsableRecord(list_response)
          THEN list_out.val = <<>> /\ combo = NumCombinations
          ELSE list_out.val # <<>> /\ list_out.val = TryBody(list_response).stocks

\* C11's case: all 15 combinations were tried, the last one brought a payload
\* with an entry that is no dict, and the call returned []
C11_Witness ==
    /\ list_out = [kind |-> "returned", val |-> <<>>]
    /\ combo = NumCombinations
    /\ list_response.kind = "json"
    /\ Len(list_response.diff) = 2
    /\ ~list_response.diff[2].dict

----------------------------------------------------------------------------
\* The factor functions of stock_selection_strategy.py (63-302)

RNeg(x) == [n |-> -x.n, d |-> x.d]
RAbs(x) == [n |-> Abs(x.n), d |-> x.d]
RMax(x, y) == IF RLe(y, x) THEN x ELSE y

\* sum(xs)
RECURSIVE RSum(_)
RSum(xs) ==
    IF xs = <<>> THEN RZero
    ELSE IF Len(xs) = 1 THEN xs[1]
    ELSE LET h == Len(xs) \div 2
         IN  RAdd(RSum(SubSeq(xs, 1, h)), RSum(SubSeq(xs, h + 1, Len(xs))))

\* max(xs) and min(xs) of a non-empty list
RMaxOf(xs) == CHOOSE x \in {xs[i] : i \in 1 .. Len(xs)} : \A i \in 1 .. Len(xs) : RLe(xs[i], x)
RMinOf(xs) == CHOOSE x \in {xs[i] : i \in 1 .. Len(xs)} : \A i \in 1 .. Len(xs) : RLe(x, xs[i])

\* the statements of a function run in order: v, the value an earlier
\* statement computed, is there before the expression e that uses it
After(v, e) == IF v = v THEN e ELSE e

\* max(lo, min(hi, x)), a mutation: the score is left as it is
Unclamped(lo, hi, x) == x

\* max(lo, min(hi, x)), lines 158, 219 and 300
Clamp(lo, hi, x) == RMax(lo, RMin(hi, x))

\* stock.get(key, default) for a key of FactorKeys
Get(s, key, default) == IF s.f[key] = Absent THEN default ELSE s.f[key].v

\* the largest root SqrtTenths looks for
MaxRootTenths == 400

\* the square root of x >= 0 in tenths, rounded down: np.std and np.sqrt give
\* the nearest double, the model keeps one decimal
SqrtTenths(x) ==
    LET m == (x.n \div x.d) * 100 + ((x.n % x.d) * 100) \div x.d
    IN  CHOOSE r \in 0 .. MaxRootTenths : r * r <= m /\ (m < (r + 1) * (r + 1) \/ r = MaxRootTenths)

\* the trading days of a year, line 117
TradingDays == 252
\* len(history_prices) < 15, line 83
MinHistory == 15

\* price_returns, lines 110-114
PriceReturns(close_prices) ==
    LET idx == SelectSeq([i \in 1 .. Len(close_prices) - 1 |-> i],
                         LAMBDA i : RLt(RZero, close_prices[i + 1]))
    IN  [j \in 1 .. Len(idx) |->
            RDiv(RSub(close_prices[idx[j]], close_prices[idx[j] + 1]), close_prices[idx[j] + 1])]

\* np.std(price_returns) * np.sqrt(252), line 117: the root of 252 times the
\* population variance (k * sum of squares - square of the sum) / k^2
Volatility(price_returns) ==
    LET k == Len(price_returns)
        s1 == RSum(price_returns)
        s2 == RSum([i \in 1 .. k |-> RMul(price_returns[i], price_returns[i])])
        num == After(s1, After(s2, RSub(RMul(RInt(k), s2), RMul(s1, s1))))
        var == After(num, RDiv(num, RInt(k * k)))
    IN  After(var, Rat(SqrtTenths(RMul(RInt(TradingDays), var)), 10))

\* lines 134-151
ReversalScore(momentum_5day, momentum_10day, price_position) ==
    IF RLt(RInt(15), momentum_5day)
    THEN IF RLt(RInt(80), price_position)
         THEN RMul(RNeg(momentum_5day), Rat(8, 10))
         ELSE RMul(RNeg(momentum_5day), Rat(5, 10))
    ELSE IF RLt(momentum_5day, RInt(-10))
    THEN IF RLt(price_position, RInt(20))
         THEN RMul(RAbs(momentum_5day), Rat(8, 10))
         ELSE RMul(RAbs(momentum_5day), Rat(5, 10))
    ELSE IF RLt(RZero, momentum_10day)
         THEN RMul(momentum_5day, Rat(12, 10))
         ELSE RMul(momentum_5day, Rat(8, 10))

\* calculate_15day_momentum_reversal_factor(stock), lines 63-160, for close
\* prices above 0
calculate_15day_momentum_reversal_factor(s) ==
    IF ~s.has_history \/ s.history_prices = <<>> THEN RZero
    ELSE IF Len(s.history_prices) < MinHistory THEN RZero
    ELSE LET close_prices == s.history_prices
             current_price == close_prices[1]
             price_5days_ago == close_prices[5]
             price_15days_ago == close_prices[15]
             history_high == RMaxOf(close_prices)
             history_low == RMinOf(close_prices)
             momentum_5day == RMul(RDiv(RSub(current_price, price_5days_ago), price_5days_ago), RInt(100))
             momentum_10day == RMul(RDiv(RSub(price_5days_ago, price_15days_ago), price_15days_ago), RInt(100))
             price_position ==
                 IF history_high # history_low
                 THEN RMul(RDiv(RSub(current_price, history_low), RSub(history_high, history_low)), RInt(100))
                 ELSE RInt(50)
             price_returns == PriceReturns(close_prices)
             volatility_factor ==
                 IF price_returns # <<>>
                 THEN RMin(RInt(1), RDiv(Rat(3, 10), RAdd(Volatility(price_returns), Rat(1, 10))))
                 ELSE RInt(1)
             volume_factor == RMin(RInt(2), Get(s, "volume_ratio", RInt(1)))
             fund_factor == RAdd(RInt(1), RMul(Get(s, "main_ratio", RZero), Rat(1, 10)))
             reversal_score == ReversalScore(momentum_5day, momentum_10day, price_position)
             final_score == RAdd(RMul(RMul(RMul(reversal_score, volatility_factor), volume_factor), fund_factor),
                                 RMul(price_position, Rat(1, 10)))
         IN  After(momentum_5day, After(momentum_10day, After(price_position, After(price_returns,
             After(volatility_factor, After(reversal_score, After(final_score,
             Clamp(RInt(-50), RInt(50), final_score))))))))

\* main_inflow / 1e8, lines 187, 190 and 453
InflowUnit == 100000000

\* volume_factor, lines 181-184 and 446-448
VolumeFactor(volume_ratio) ==
    IF RLt(RInt(3), volume_ratio)
    THEN RAdd(RInt(2), RMul(RSub(volume_ratio, RInt(3)), Rat(2, 10)))
    ELSE RSub(RMin(RInt(3), volume_ratio), RInt(1))

\* fund_strength, line 187, and fund_flow_factor, line 453
FundStrength(s) ==
    RAdd(RMul(Rat(6, 10), RDiv(Get(s, "main_inflow", RZero), RInt(InflowUnit))),
         RMul(Rat(4, 10), Get(s, "main_ratio", RZero)))

\* super_large_strength, line 190
SuperLargeStrength(s) ==
    RAdd(RMul(Rat(5, 10), RDiv(Get(s, "super_large_inflow", RZero), RInt(InflowUnit))),
         RMul(Rat(5, 10), Get(s, "super_large_ratio", RZero)))

\* a threshold that ignores the market median
ReversalThresholdFixed(market_median_change) == RInt(5)

\* reversal_threshold, lines 193-197; market_median_change is None or a number
ReversalThreshold(market_median_change) ==
    IF market_median_change # Null
    THEN RMax(RInt(3), RMul(RAbs(market_median_change.v), RInt(2)))
    ELSE RInt(5)

\* calculate_momentum_factor(stock, market_median_change), lines 162-221, for
\* a price other than -50
calculate_momentum_factor(s, market_median_change) ==
    LET change_rate == Get(s, "change_rate", RZero)
        volume_factor == VolumeFactor(Get(s, "volume_ratio", RInt(1)))
        fund_strength == FundStrength(s)
        super_large_strength == SuperLargeStrength(s)
        Blend(a, x, b, c, d) ==
            RAdd(RAdd(RAdd(RMul(a, x), RMul(b, fund_strength)), RMul(c, super_large_strength)),
                 RMul(d, volume_factor))
        momentum_score ==
            IF RLt(ReversalThreshold(market_median_change), change_rate)
            THEN Blend(Rat(-5, 10), change_rate, Rat(15, 10), RInt(1), Rat(8, 10))
            ELSE IF RLt(change_rate, RInt(-2))
            THEN Blend(Rat(8, 10), RAbs(change_rate), RInt(1), Rat(8, 10), Rat(12, 10))
            ELSE Blend(Rat(12, 10), change_rate, Rat(15, 10), Rat(12, 10), RInt(1))
        price_factor == RDiv(RInt(100), RAdd(Get(s, "price", RInt(100)), RInt(50)))
        adjusted == RMul(momentum_score, RAdd(RInt(1), RMul(Rat(2, 10), price_factor)))
    IN  Clamp(RInt(-100), RInt(100), adjusted)

\* trend_strength, lines 250-265
TrendStrength(ma5, ma10, ma20) ==
    IF RLt(ma10, ma5) /\ RLt(ma20, ma10) THEN RInt(1)
    ELSE IF RLt(ma10, ma5) THEN Rat(5, 10)
    ELSE IF RLt(ma20, ma10) THEN Rat(3, 10)
    ELSE Rat(-5, 10)

\* breakthrough_strength, lines 278-294
BreakthroughStrength(price, ma5, ma10, ma20) ==
    IF RLt(ma5, price) /\ RLt(ma10, price) /\ RLt(ma20, price) THEN RInt(1)
    ELSE IF RLt(ma5, price) /\ RLt(ma10, price) THEN Rat(6, 10)
    ELSE IF RLt(ma5, price) THEN Rat(3, 10)
    ELSE Rat(-5, 10)

\* the test of line 245, a mutation: the price is not looked at
InvalidTrendInputNoPrice(ma5, ma10, ma20, current_price) ==
    RLe(ma5, RZero) \/ RLe(ma10, RZero) \/ RLe(ma20, RZero)

\* if ma5 <= 0 or ma10 <= 0 or ma20 <= 0 or current_price <= 0, line 245
InvalidTrendInput(ma5, ma10, ma20, current_price) ==
    RLe(ma5, RZero) \/ RLe(ma10, RZero) \/ RLe(ma20, RZero) \/ RLe(current_price, RZero)

\* calculate_trend_factor(stock), lines 223-302
calculate_trend_factor(s) ==
    IF \E key \in {"ma5", "ma10", "ma20"} : s.f[key] = Absent THEN RZero
    ELSE LET ma5 == Get(s, "ma5", RZero)
             ma10 == Get(s, "ma10", RZero)
             ma20 == Get(s, "ma20", RZero)
             current_price == Get(s, "price", RZero)
         IN  IF InvalidTrendInput(ma5, ma10, ma20, current_price)
             THEN RZero
             ELSE LET gap_5_10 == RMul(RDiv(RSub(ma5, ma10), ma10), RInt(100))
                      gap_10_20 == RMul(RDiv(RSub(ma10, ma20), ma20), RInt(100))
                      gap_factor == RMin(RInt(2), RMax(RInt(-2), RDiv(RAdd(gap_5_10, gap_10_20), RInt(2))))
                      trend_score ==
                          RAdd(RAdd(RMul(TrendStrength(ma5, ma10, ma20), RInt(40)), RMul(gap_factor, RInt(20))),
                               RMul(BreakthroughStrength(current_price, ma5, ma10, ma20), RInt(40)))
                  IN  Clamp(RInt(-100), RInt(100), trend_score)

\* PHASE_CONFIG, lines 9-37; the three phase names are written here as one
\* ASCII word each
PHASE_CONFIG ==
    [rising |-> [momentum_factor |-> Rat(40, 100), trend_factor |-> Rat(30, 100),
                 volume_factor |-> Rat(15, 100), fund_flow_factor |-> Rat(15, 100)],
     sideways |-> [momentum_factor |-> Rat(20, 100), trend_factor |-> Rat(25, 100),
                   volume_factor |-> Rat(25, 100), fund_flow_factor |-> Rat(30, 100)],
     falling |-> [momentum_factor |-> Rat(15, 100), trend_factor |-> Rat(35, 100),
                  volume_factor |-> Rat(20, 100), fund_flow_factor |-> Rat(30, 100)]]

PhaseTypes == DOMAIN PHASE_CONFIG

\* a composite that leaves the volume and fund flow factors unscaled
CompositeUnscaled(momentum_score, trend_score, volume_factor, fund_flow_factor, weights) ==
    RAdd(RAdd(RMul(momentum_score, weights.momentum_factor), RMul(trend_score, weights.trend_factor)),
         RAdd(RMul(volume_factor, weights.volume_factor), RMul(fund_flow_factor, weights.fund_flow_factor)))

\* composite_score, lines 456-461
Composite(momentum_score, trend_score, volume_factor, fund_flow_factor, weights) ==
    RAdd(RAdd(RMul(momentum_score, weights.momentum_factor), RMul(trend_score, weights.trend_factor)),
         RAdd(RMul(RMul(volume_factor, RInt(20)), weights.volume_factor),
              RMul(RMul(fund_flow_factor, RInt(20)), weights.fund_flow_factor)))

\* the body of the loop of lines 439-469 for one stock: the values stored
\* under the phase_* keys
PhaseScores(s, phase_type, market_median_change) ==
    LET momentum_score == calculate_momentum_factor(s, market_median_change)
        trend_score == calculate_trend_factor(s)
        volume_factor == VolumeFactor(Get(s, "volume_ratio", RInt(1)))
        fund_flow_factor == FundStrength(s)
    IN  [phase_momentum_score |-> momentum_score,
         phase_trend_score |-> trend_score,
         phase_volume_factor |-> volume_factor,
         phase_fund_flow_factor |-> fund_flow_factor,
         phase_composite_score |-> Composite(momentum_score, trend_score, volume_factor, fund_flow_factor,
                                             PHASE_CONFIG[phase_type]),
         phase_type |-> phase_type]

----------------------------------------------------------------------------
\* SpecFactor: one factor function applied to one stock dict

\* a stock dict with the given values under some keys and no other key
StockWith(vals) ==
    [code |-> <<"6", "0", "0">>, sector |-> <<"s">>,
     f |-> [k \in FactorKeys |-> IF k \in DOMAIN vals THEN vals[k] ELSE Absent],
     has_history |-> FALSE, history_prices |-> <<>>]

\* n close prices, most recent first: a on the last 4 days, b on the 5 days
\* before (close_prices[4] is b), c on the 5 days before those, d earlier
HistoryOf(a, b, c, d, n) ==
    [i \in 1 .. n |-> IF i <= 4 THEN RInt(a) ELSE IF i <= 9 THEN RInt(b) ELSE IF i <= 14 THEN RInt(c) ELSE RInt(d)]

Histories ==
    {HistoryOf(a, b, c, d, n) : a \in {7, 9, 10, 11, 12, 20}, b \in {8, 10}, c \in {4, 10, 20}, d \in {8, 10},
                                n \in {MinHistory - 1, MinHistory, MinHistory + 1}}
    \cup {<<>>}

\* a value far outside what the market gives
Extreme == 1000

\* stocks for the 15-day factor: a history, a volume_ratio and a main_ratio
HistoryStocks ==
    {[StockWith([volume_ratio |-> vr, main_ratio |-> mr]) EXCEPT !.has_history = TRUE, !.history_prices = h] :
        h \in Histories,
        vr \in {Absent, Num(Rat(1, 2)), Num(RInt(Extreme)), Num(RInt(-Extreme))},
        mr \in {Absent, Num(RInt(5)), Num(RInt(Extreme)), Num(RInt(-Extreme))}}
    \cup {StockWith([volume_ratio |-> Num(RInt(Extreme))])}

\* stocks for the baseline factor
FlowStocks ==
    {StockWith([change_rate |-> cr, main_inflow |-> mi, main_ratio |-> mr, super_large_inflow |-> sli,
                super_large_ratio |-> slr, volume_ratio |-> vr, price |-> p]) :
        cr \in {Num(RInt(-Extreme)), Num(RInt(-3)), Num(RZero), Num(RInt(4)), Num(RInt(6)), Num(RInt(Extreme))},
        mi \in {Num(RZero), Num(RInt(2 * InflowUnit)), Num(RInt(-InflowUnit))},
        mr \in {Num(RInt(-Extreme)), Num(RInt(50)), Num(RInt(Extreme))},
        sli \in {Absent, Num(RInt(InflowUnit))},
        slr \in {Num(RZero), Num(RInt(Extreme))},
        vr \in {Num(Rat(1, 2)), Num(RInt(5)), Num(RInt(Extreme))},
        p \in {Absent, Num(RZero), Num(RInt(10))}}

\* stocks for the trend factor
TrendStocks ==
    {StockWith([ma5 |-> m5, ma10 |-> m10, ma20 |-> m20, price |-> p]) :
        m5 \in {Absent, Num(RZero), Num(RInt(9)), Num(RInt(10)), Num(RInt(11)), Num(RInt(1000))},
        m10 \in {Absent, Num(RZero), Num(RInt(9)), Num(RInt(10)), Num(RInt(11)), Num(RInt(1000))},
        m20 \in {Absent, Num(RZero), Num(RInt(9)), Num(RInt(10)), Num(RInt(11)), Num(RInt(1000))},
        p \in {Absent, Num(RInt(-1)), Num(RZero), Num(RInt(8)), Num(RInt(12)), Num(RInt(2000))}}

\* np.median(change_rates) of the collection the stock is in, or None
MedianChanges == {Null, Num(RInt(1))}

FactorInit ==
    /\ stock \in HistoryStocks \cup FlowStocks \cup TrendStocks
    /\ factors = [kind |-> "pending"]
    /\ RetryIdle
    /\ FieldIdle
    /\ RankIdle
    /\ CleanIdle
    /\ CrawlIdle
    /\ TailIdle
    /\ ListIdle
    /\ HistIdle
    /\ SelectIdle

Scored(fn, score) == [kind |-> "done", fn |-> fn, score |-> score]

\* stock['15day_momentum_score'] = calculate_15day_momentum_reversal_factor(stock), line 337
Compute15Day ==
    /\ factors.kind = "pending"
    /\ factors' = Scored("15day_momentum_score", calculate_15day_momentum_reversal_factor(stock))
    /\ UNCHANGED <<stock, retry_vars, field_vars, rank_vars, clean_vars, crawl_vars, list_vars, hist_vars, select_vars, tail_vars>>

\* stock['momentum_score'] = calculate_momentum_factor(stock, market_median_change), line 382
ComputeMomentum ==
    /\ factors.kind = "pending"
    /\ \E m \in MedianChanges : factors' = Scored("momentum_score", calculate_momentum_factor(stock, m))
    /\ UNCHANGED <<stock, retry_vars, field_vars, rank_vars, clean_vars, crawl_vars, list_vars, hist_vars, select_vars, tail_vars>>

\* trend_score = calculate_trend_factor(stock), line 442
ComputeTrend ==
    /\ factors.kind = "pending"
    /\ factors' = Scored("phase_trend_score", calculate_trend_factor(stock))
    /\ UNCHANGED <<stock, retry_vars, field_vars, rank_vars, clean_vars, crawl_vars, list_vars, hist_vars, select_vars, tail_vars>>

\* stock['phase_composite_score'] = composite_score, line 468
ComputePhase ==
    /\ factors.kind = "pending"
    /\ \E m \in MedianChanges, phase_type \in PhaseTypes :
          factors' = Scored("phase_composite_score", PhaseScores(stock, phase_type, m).phase_composite_score)
    /\ UNCHANGED <<stock, retry_vars, field_vars, rank_vars, clean_vars, crawl_vars, list_vars, hist_vars, select_vars, tail_vars>>

FactorNext == Compute15Day \/ ComputeMomentum \/ ComputeTrend \/ ComputePhase

SpecFactor == FactorInit /\ [][FactorNext]_vars

\* C12: the 15-day factor is exactly 0.0 for a stock with no history or fewer
\* than 15 bars, and lies in [-50, 50] for a stock with at least 15 bars.
C12_FifteenDayBounds ==
    (factors.kind = "done" /\ factors.fn = "15day_momentum_score") =>
        IF ~stock.has_history \/ Len(stock.history_prices) < 15
        THEN factors.score = RZero
        ELSE RLe(RInt(-50), factors.score) /\ RLe(factors.score, RInt(50))

\* C12's case: 15 bars, a fall of 30% in 5 days from a price that was low, and
\* a very large main_ratio: the raw score is far above 50, the factor is 50
C12_Witness ==
    /\ factors = Scored("15day_momentum_score", RInt(50))
    /\ Len(stock.history_prices) = 15
    /\ stock.history_prices[1] = RInt(7)
    /\ stock.history_prices[5] = RInt(10)
    /\ stock.f["main_ratio"] = Num(RInt(Extreme))
    /\ stock.f["volume_ratio"] = Num(Rat(1, 2))

\* the stock has ma5, ma10 and ma20; a missing price reads as 0
HasAverages(s) == \A key \in {"ma5", "ma10", "ma20"} : s.f[key] # Absent

\* ma5 > ma10 > ma20 > 0 and the price above all three
Bullish(s) ==
    /\ HasAverages(s)
    /\ RLt(RZero, s.f["ma20"].v)
    /\ RLt(s.f["ma20"].v, s.f["ma10"].v)
    /\ RLt(s.f["ma10"].v, s.f["ma5"].v)
    /\ s.f["price"] # Absent
    /\ RLt(s.f["ma5"].v, s.f["price"].v)

\* the reverse configuration: ma5 <= ma10 <= ma20 and the price not above ma5
Bearish(s) ==
    /\ HasAverages(s)
    /\ RLe(s.f["ma5"].v, s.f["ma10"].v)
    /\ RLe(s.f["ma10"].v, s.f["ma20"].v)
    /\ s.f["price"] = Absent \/ RLe(s.f["price"].v, s.f["ma5"].v)

\* C13: the trend factor is 0.0 when ma5, ma10 or ma20 is missing or when the
\* price or one of the averages is not positive; and the score of a stock with
\* ma5 > ma10 > ma20 and the price above all three is strictly greater than
\* the score of every stock in the reverse configuration.
C13_TrendFactor ==
    (factors.kind = "done" /\ factors.fn = "phase_trend_score") =>
        /\ ~HasAverages(stock) => factors.score = RZero
        /\ (\E key \in {"ma5", "ma10", "ma20", "price"} : RLe(stock.f[key].v, RZero)) => factors.score = RZero
        /\ Bullish(stock) => \A o \in TrendStocks : Bearish(o) => RLt(calculate_trend_factor(o), factors.score)

\* C13's case: ma5 11 > ma10 10 > ma20 9 and the price 12 above them, scored 100
C13_Witness ==
    /\ factors = Scored("phase_trend_score", RInt(100))
    /\ Bullish(stock)
    /\ stock.f["ma5"] = Num(RInt(11))
    /\ stock.f["price"] = Num(RInt(12))
    /\ \E o \in TrendStocks : Bearish(o) /\ calculate_trend_factor(o) = RInt(-80)

\* C14: the final score of every scoring variant (momentum_score,
\* 15day_momentum_score, the trend score and phase_composite_score) lies in
\* [-100, 100], whatever the stock's fields hold.
C14_ScoresClamped ==
    factors.kind = "done" => RLe(RInt(-100), factors.score) /\ RLe(factors.score, RInt(100))

----------------------------------------------------------------------------
\* Selection: select_stocks, select_stocks_with_15day_factor,
\* select_stocks_with_phase and generate_selection_report

\* the most stocks in stock_data, and the largest top_n
MaxSelectStocks == 3
MaxTopN == 4

\* collect_all_stocks(sector_stocks), lines 51-61: the stocks of every sector
\* in the order of the dict, each with its sector's name
RECURSIVE collect_all_stocks(_)
collect_all_stocks(sector_stocks) ==
    IF sector_stocks = <<>> THEN <<>>
    ELSE LET sec == sector_stocks[1]
         IN  [i \in 1 .. Len(sec.stocks) |-> [sec.stocks[i] EXCEPT !.sector = sec.name]]
             \o collect_all_stocks(Tail(sector_stocks))

\* lines 309-323: the stocks under 'sector_stocks', or without that key the
\* stocks of every top-level list whose first entry is a dict with a code
CollectFrom(data) ==
    IF data.keyed THEN collect_all_stocks(data.sectors)
    ELSE LET IsStockList(sec) == Len(sec.stocks) > 0
         IN  collect_all_stocks(SelectSeq(data.sectors, IsStockList))

\* the numbers of xs in non-decreasing order
RECURSIVE RSortAsc(_)
RSortAsc(xs) ==
    IF xs = <<>> THEN <<>>
    ELSE LET x == xs[Len(xs)]
             front == RSortAsc(SubSeq(xs, 1, Len(xs) - 1))
             below == Cardinality({i \in 1 .. Len(front) : RLe(front[i], x)})
         IN  SubSeq(front, 1, below) \o <<x>> \o SubSeq(front, below + 1, Len(front))

\* np.median(change_rates) if change_rates else 0, lines 377-378
MedianOf(sorted, n) ==
    IF n = 0 THEN Num(RZero)
    ELSE IF n % 2 = 1 THEN Num(sorted[(n + 1) \div 2])
    ELSE Num(RDiv(RAdd(sorted[n \div 2], sorted[n \div 2 + 1]), RInt(2)))

MarketMedianChange(all_stocks) ==
    MedianOf(RSortAsc([i \in 1 .. Len(all_stocks) |-> Get(all_stocks[i], "change_rate", RZero)]), Len(all_stocks))

\* the keys a selection function adds to one stock: lines 382, 337-342 and 464-469
PhaseKeys(ph) ==
    [phase_composite_score |-> ph.phase_composite_score,
     phase_momentum_score |-> ph.phase_momentum_score,
     phase_trend_score |-> ph.phase_trend_score,
     phase_volume_factor |-> ph.phase_volume_factor,
     phase_fund_flow_factor |-> ph.phase_fund_flow_factor,
     phase_type |-> ph.phase_type]

ScoresOf(fn, s, market_median_change) ==
    CASE fn = "momentum_score" ->
             [momentum_score |-> calculate_momentum_factor(s, market_median_change)]
      [] fn = "15day_momentum_score" ->
             [15day_momentum_score |-> calculate_15day_momentum_reversal_factor(s),
              old_momentum_score |-> calculate_momentum_factor(s, market_median_change)]
      [] OTHER -> PhaseKeys(PhaseScores(s, fn, market_median_change))

\* the key the selection sorts by
SortKey(fn) == IF fn \in PhaseTypes THEN "phase_composite_score" ELSE fn

\* the loops of lines 336-342, 381-382 and 439-469: every collected stock
\* with its scores
ScoreEach(fn, all_stocks, m) ==
    [i \in 1 .. Len(all_stocks) |->
        [code |-> all_stocks[i].code, sector |-> all_stocks[i].sector, f |-> all_stocks[i].f,
         has_history |-> all_stocks[i].has_history, history_prices |-> all_stocks[i].history_prices,
         scores |-> ScoresOf(fn, all_stocks[i], m)]]

ScoreAll(fn, all_stocks) == ScoreEach(fn, all_stocks, MarketMedianChange(all_stocks))

\* the index before which sorted(reverse=True) puts x, a mutation: before
\* the stocks of the same score
ScoreInsertAtUnstable(s, x, key) ==
    IF \E i \in 1 .. Len(s) : RLe(s[i].scores[key], x.scores[key])
    THEN CHOOSE i \in 1 .. Len(s) :
             /\ RLe(s[i].scores[key], x.scores[key])
             /\ \A k \in 1 .. i - 1 : ~RLe(s[k].scores[key], x.scores[key])
    ELSE Len(s) + 1

\* the index before which sorted(reverse=True) puts x, which came after all
\* of s in the list: before the first stock of a strictly lower score
ScoreInsertAt(s, x, key) ==
    IF \E i \in 1 .. Len(s) : RLt(s[i].scores[key], x.scores[key])
    THEN CHOOSE i \in 1 .. Len(s) :
             /\ RLt(s[i].scores[key], x.scores[key])
             /\ \A k \in 1 .. i - 1 : ~RLt(s[k].scores[key], x.scores[key])
    ELSE Len(s) + 1

\* front with x put at index i
InsertAtIndex(front, x, i) == SubSeq(front, 1, i - 1) \o <<x>> \o SubSeq(front, i, Len(front))

\* the sorted list front with x, the next stock of the list, put in its place
InsertByScore(front, x, key) == InsertAtIndex(front, x, ScoreInsertAt(front, x, key))

\* sorted(all_stocks, key=lambda x: x[key], reverse=True), lines 345, 385, 472
RECURSIVE SortByScoreDesc(_, _)
SortByScoreDesc(s, key) ==
    IF s = <<>> THEN <<>>
    ELSE InsertByScore(SortByScoreDesc(SubSeq(s, 1, Len(s) - 1), key), s[Len(s)], key)

\* s[:n] for n >= 0
Prefix(s, n) == SubSeq(s, 1, Min(n, Len(s)))

\* a selection function: the scored collection and the stocks it returns
SelectFrom(fn, all_stocks, n) ==
    [kind |-> "selected", fn |-> fn, all_stocks |-> all_stocks,
     selected_stocks |-> Prefix(SortByScoreDesc(all_stocks, SortKey(fn)), n),
     report |-> <<>>]

SelectWith(fn, data, n) == SelectFrom(fn, ScoreAll(fn, CollectFrom(data)), n)

\* generate_selection_report (476-530): report['selected_stocks']
generate_selection_report(selected_stocks, key) ==
    [i \in 1 .. Len(selected_stocks) |->
        [rank |-> i, code |-> selected_stocks[i].code, sector |-> selected_stocks[i].sector,
         score |-> selected_stocks[i].scores[key]]]

----------------------------------------------------------------------------
\* SpecSelect: one selection over one stock_data, then its report

\* three stocks of different fields: a quiet one, one with strong inflow in a
\* bullish alignment, and one with 15 days of history
SelectProfiles ==
    {StockWith([change_rate |-> Num(RZero), main_ratio |-> Num(RInt(5)), volume_ratio |-> Num(Rat(1, 2)),
                price |-> Num(RInt(50))]),
     StockWith([change_rate |-> Num(RInt(6)), main_inflow |-> Num(RInt(2 * InflowUnit)), main_ratio |-> Num(RInt(50)),
                volume_ratio |-> Num(RInt(5)), price |-> Num(RInt(50)), ma5 |-> Num(RInt(11)),
                ma10 |-> Num(RInt(10)), ma20 |-> Num(RInt(9))]),
     [StockWith([change_rate |-> Num(RInt(-3)), volume_ratio |-> Num(Rat(1, 2)), main_ratio |-> Num(RInt(5)),
                 price |-> Num(RInt(50))])
         EXCEPT !.has_history = TRUE, !.history_prices = HistoryOf(12, 10, 10, 10, MinHistory)]}

\* the i-th stock of the input carries the code 60i
Coded(ps) == [i \in 1 .. Len(ps) |-> [ps[i] EXCEPT !.code = <<"6", "0", Digits[i + 1]>>]]

\* the inputs: up to MaxSelectStocks stocks in two sectors, under the
\* 'sector_stocks' key or at the top level
StockDatas ==
    {[keyed |-> keyed,
      sectors |-> <<[name |-> <<"a">>, stocks |-> SubSeq(Coded(ps), 1, Min(cut, Len(ps)))],
                    [name |-> <<"b">>, stocks |-> SubSeq(Coded(ps), Min(cut, Len(ps)) + 1, Len(ps))]>>] :
        keyed \in BOOLEAN, cut \in 0 .. MaxSelectStocks,
        ps \in UNION {[1 .. n -> SelectProfiles] : n \in 0 .. MaxSelectStocks}}

SelectInit ==
    /\ stock_data \in StockDatas
    /\ top_n \in 0 .. MaxTopN
    /\ selection = [kind |-> "pending"]
    /\ RetryIdle
    /\ FieldIdle
    /\ RankIdle
    /\ CleanIdle
    /\ CrawlIdle
    /\ TailIdle
    /\ ListIdle
    /\ HistIdle
    /\ FactorIdle

\* select_stocks(stock_data, top_n), lines 349-387
SelectBaseline ==
    /\ selection.kind = "pending"
    /\ selection' = SelectWith("momentum_score", stock_data, top_n)
    /\ UNCHANGED <<stock_data, top_n, retry_vars, field_vars, rank_vars, clean_vars, crawl_vars, list_vars, hist_vars, factor_vars, tail_vars>>

\* select_stocks_with_15day_factor(stock_data, top_n), lines 304-347
Select15Day ==
    /\ selection.kind = "pending"
    /\ selection' = SelectWith("15day_momentum_score", stock_data, top_n)
    /\ UNCHANGED <<stock_data, top_n, retry_vars, field_vars, rank_vars, clean_vars, crawl_vars, list_vars, hist_vars, factor_vars, tail_vars>>

\* select_stocks_with_phase(stock_data, phase_type, top_n), lines 389-474
SelectPhase ==
    /\ selection.kind = "pending"
    /\ \E phase_type \in PhaseTypes : selection' = SelectWith(phase_type, stock_data, top_n)
    /\ UNCHANGED <<stock_data, top_n, retry_vars, field_vars, rank_vars, clean_vars, crawl_vars, list_vars, hist_vars, factor_vars, tail_vars>>

\* generate_selection_report(selected_stocks, ...), lines 476-530
GenerateReport ==
    /\ selection.kind = "selected"
    /\ selection' = [selection EXCEPT !.kind = "reported",
                                      !.report = generate_selection_report(selection.selected_stocks,
                                                                           SortKey(selection.fn))]
    /\ UNCHANGED <<stock_data, top_n, retry_vars, field_vars, rank_vars, clean_vars, crawl_vars, list_vars, hist_vars, factor_vars, tail_vars>>

SelectNext == SelectBaseline \/ Select15Day \/ SelectPhase \/ GenerateReport

SpecSelect == SelectInit /\ [][SelectNext]_vars

\* the stocks of the input in the order of the sectors
InputStocks == stock_data.sectors[1].stocks \o stock_data.sectors[2].stocks

\* the score of the selection's function for the input stock s
ExpectedScore(s) ==
    LET m == MarketMedianChange(InputStocks)
        fn == selection.fn
    IN  CASE fn = "momentum_score" -> calculate_momentum_factor(s, m)
          [] fn = "15day_momentum_score" -> calculate_15day_momentum_reversal_factor(s)
          [] OTHER -> PhaseScores(s, fn, m).phase_composite_score

\* the position in the collection of the stock of this code
PosOf(code) == CHOOSE i \in 1 .. Len(InputStocks) : InputStocks[i].code = code

\* C15: every collected stock gets the chosen score; the result is the first
\* min(top_n, number of collected stocks) stocks of the collection in
\* non-increasing score order with ties in collection order, so that no
\* unselected stock has a strictly higher score than a selected one; the
\* report gives rank i to the i-th stock of the result.
C15_SelectionOrder ==
    selection.kind \in {"selected", "reported"} =>
        LET key == SortKey(selection.fn)
            all == selection.all_stocks
            sel == selection.selected_stocks
            chosen == {PosOf(sel[i].code) : i \in 1 .. Len(sel)}
        IN  /\ Len(all) = Len(InputStocks)
            /\ \A i \in 1 .. Len(all) :
                  /\ all[i].code = InputStocks[i].code
                  /\ all[i].scores[key] = ExpectedScore(InputStocks[i])
            /\ Len(sel) = Min(top_n, Len(InputStocks))
            /\ Cardinality(chosen) = Len(sel)
            /\ \A i \in 1 .. Len(sel) : sel[i] = all[PosOf(sel[i].code)]
            /\ \A i, j \in 1 .. Len(sel) :
                  i < j => \/ RLt(sel[j].scores[key], sel[i].scores[key])
                           \/ /\ sel[j].scores[key] = sel[i].scores[key]
                              /\ PosOf(sel[i].code) < PosOf(sel[j].code)
            /\ \A u \in (1 .. Len(all)) \ chosen : \A i \in 1 .. Len(sel) :
                  \/ RLt(all[u].scores[key], sel[i].scores[key])
                  \/ /\ all[u].scores[key] = sel[i].scores[key]
                     /\ PosOf(sel[i].code) < u
            /\ selection.kind = "reported" =>
                  /\ Len(selection.report) = Len(sel)
                  /\ \A i \in 1 .. Len(sel) :
                        /\ selection.report[i].rank = i
                        /\ selection.report[i].code = sel[i].code

\* a report of two stocks out of three, the first two of them tied: the tied
\* stocks keep their collection order, and the third stock is left out
C15_Witness ==
    /\ selection.kind = "reported"
    /\ top_n = 2
    /\ Len(selection.all_stocks) = 3
    /\ Len(selection.selected_stocks) = 2
    /\ selection.selected_stocks[1].scores[SortKey(selection.fn)]
          = selection.selected_stocks[2].scores[SortKey(selection.fn)]
    /\ selection.report[2].rank = 2
    /\ \E u \in 1 .. 3 :
          RLt(selection.all_stocks[u].scores[SortKey(selection.fn)],
              selection.selected_stocks[2].scores[SortKey(selection.fn)])

----------------------------------------------------------------------------
\* get_stock_history_prices (eastmoney_fund_flow.py 1241-1322)

\* the most K-lines in a response, which is also the latest date, and the
\* largest day count asked for
MaxKlines == 3
MaxDays == 2

\* the responses with no data, or no data.klines, in them
NoKlineKinds == {"no_data", "no_klines", "empty_klines"}

\* one K-line "date,open,close,high,low,volume,...": its date as a day number,
\* the number of its comma-separated parts, and the text of its price parts
Kline(date, n_parts, price) == [date |-> date, n_parts |-> n_parts, price |-> price]

\* the dict of lines 1305-1312 for one K-line
BarOf(kline, price) == [date |-> kline.date, close_price |-> price]

\* the loop of lines 1295-1312 over klines from index i on: a K-line of fewer
\* than 6 parts is passed over, a price that float() rejects raises
RECURSIVE ParseKlines(_, _, _)
ParseKlines(klines, i, acc) ==
    IF i > Len(klines) THEN [raised |-> "none", history_prices |-> acc]
    ELSE IF klines[i].n_parts < 6 THEN ParseKlines(klines, i + 1, acc)
    ELSE LET r == PyFloatStr(klines[i].price)
         IN  IF ~r.ok THEN [raised |-> r.err, history_prices |-> acc]
             ELSE ParseKlines(klines, i + 1, Append(acc, BarOf(klines[i], r.v)))

\* get_stock_history_prices(stock_code, days): the list it returns; every
\* exception of lines 1279-1318 is caught at line 1320
get_stock_history_prices(resp, n) ==
    IF resp.kind \in RequestFailures THEN <<>>
    ELSE IF resp.kind \in NoKlineKinds THEN <<>>
    ELSE LET r == ParseKlines(SubSeq(resp.klines, 1, Min(n, Len(resp.klines))), 1, <<>>)
         IN  IF r.raised # "none" THEN <<>> ELSE r.history_prices

\* the texts of a price part: a number and the placeholder
PriceTexts == {<<"1", "0">>, <<"-">>}

KlineResponses ==
    {[kind |-> "klines", klines |-> ks] :
        ks \in UNION {[1 .. n -> {Kline(d, np, pr) : d \in 1 .. MaxKlines, np \in {5, 6}, pr \in PriceTexts}] :
                        n \in 1 .. MaxKlines}}
    \cup {[kind |-> k, klines |-> <<>>] : k \in RequestFailures \cup NoKlineKinds}

HistInit ==
    /\ days \in 1 .. MaxDays
    /\ kline_response \in KlineResponses
    /\ history_out = [kind |-> "pending", val |-> <<>>]
    /\ RetryIdle
    /\ FieldIdle
    /\ RankIdle
    /\ CleanIdle
    /\ CrawlIdle
    /\ TailIdle
    /\ ListIdle
    /\ FactorIdle
    /\ SelectIdle

\* one call of get_stock_history_prices
GetHistory ==
    /\ history_out.kind = "pending"
    /\ history_out' = [kind |-> "returned", val |-> get_stock_history_prices(kline_response, days)]
    /\ UNCHANGED <<days, kline_response, retry_vars, field_vars, rank_vars, clean_vars, crawl_vars, list_vars, factor_vars, select_vars, tail_vars>>

HistNext == GetHistory

SpecHist == HistInit /\ [][HistNext]_vars

\* C16: the history fetcher returns at most `days` bars, most recent first,
\* in whatever order the endpoint delivers its bars.
C16_MostRecentFirst ==
    history_out.kind = "returned" =>
        /\ Len(history_out.val) <= days
        /\ \A i \in 1 .. Len(history_out.val) - 1 : history_out.val[i].date >= history_out.val[i + 1].date

----------------------------------------------------------------------------
\* the backoff between attempts

\* a step in which the operation was invoked and raised
FailedAttempt == calls' = calls + 1 /\ outcome'.kind # "returned"

\* C17: after failed attempt i (from 0) that is not the last allowed one the
\* wrapper sleeps exactly once, for min(base_delay * 2^i + jitter, max_delay)
\* with 0 <= jitter < 1: never more than max_delay, never less than
\* min(base_delay * 2^i, max_delay); no other step sleeps.
C17_BackoffDelay ==
    [][IF FailedAttempt /\ attempt < max_retries - 1
       THEN LET exp == RMul(base_delay, RInt(Pow2(attempt)))
            IN  /\ slept' = slept + 1
                /\ attempt' = attempt + 1
                /\ outcome'.kind = "running"
                /\ RLe(delay', max_delay)
                /\ RLe(RMin(exp, max_delay), delay')
                /\ delay' = max_delay \/ RLt(delay', RAdd(exp, RInt(1)))
       ELSE slept' = slept /\ delay' = delay]_vars

\* the third failure of four allowed attempts with base_delay 3: 3 * 2^2 is
\* above max_delay 10, the third sleep lasts max_delay
C17_Witness ==
    /\ max_retries = 4
    /\ base_delay = RInt(3)
    /\ attempt = 3
    /\ slept = 3
    /\ delay = max_delay
    /\ outcome.kind = "running"

----------------------------------------------------------------------------
\* what reaches the retry wrapper from a crawl attempt

\* a step in which the attempt raises into the wrapper: the wrapper goes to
\* its next attempt or re-raises
Escalates == attempt' # attempt \/ (outcome.kind = "running" /\ outcome'.kind = "raised")

\* every strategy of the attempt has run, or the page could not be requested,
\* and none gave 5 records
Exhausted ==
    /\ ran # <<>>
    /\ ran[1].method = "api"
    /\ \A i \in 1 .. Len(ran) : ran[i].count < 5
    /\ html_response.kind = "request_error" \/ Len(ran) = Len(extraction_methods)
    /\ Len(all_sectors) < 5

\* C18: an attempt raises into the wrapper if and only if all strategies are
\* exhausted with fewer than 5 records; with attempts remaining the wrapper
\* then runs the chain again, and a chain always starts with the API strategy;
\* a network error, a malformed response or a bad record never raises.
C18_OnlyInsufficientDataEscalates ==
    [][/\ Escalates <=> (pc = "html_done" /\ Exhausted)
       /\ (Escalates /\ attempt < max_retries - 1) =>
             /\ attempt' = attempt + 1
             /\ outcome'.kind = "running"
             /\ pc' = "start"
             /\ ran' = <<>>
       /\ pc = "start" => (Len(ran') = 1 /\ ran'[1].method = "api" /\ calls' = calls + 1)]_vars

\* the second attempt, after a first one that was escalated, has asked the
\* API again and got a malformed response
C18_Witness ==
    /\ attempt = 1
    /\ slept = 1
    /\ calls = 2
    /\ pc = "api_done"
    /\ Len(ran) = 1
    /\ ran[1].method = "api"
    /\ api_response.kind \in NoDiffKinds

----------------------------------------------------------------------------
\* SpecResponses: the three fetchers that read a response, side by side: a
\* behaviour is one crawl, one get_sector_stocks call or one
\* get_stock_history_prices call

ResponseInit == CrawlInit \/ ListInit \/ HistInit

ResponseNext == CrawlNext \/ ListNext \/ HistNext

SpecResponses == ResponseInit /\ [][ResponseNext]_vars

\* C19: a response of an unexpected shape gives zero records without raising,
\* and the next strategy or combination is tried: an API payload without data
\* or data.diff leaves the crawl with no records and the HTML page is requested
\* next; a page in which the table strategy finds nothing is handed to the
\* page_text strategy; a stock-list payload without data or data.diff leaves
\* get_sector_stocks running and its next step is the next combination; a
\* K-line payload without data or klines makes the history fetcher return [].
C19_MalformedFallsThrough ==
    [][/\ (pc = "start" /\ api_response'.kind \in NoDiffKinds) =>
             /\ all_sectors' = <<>>
             /\ outcome' = outcome
             /\ attempt' = attempt
             /\ pc' = "api_done"
       /\ (pc = "api_done" /\ api_response.kind \in NoDiffKinds) =>
             /\ html_response'.kind \in {"ok", "request_error"}
             /\ outcome' = outcome
       /\ (pc = "extract" /\ Len(ran) = 1) =>
             /\ ran'[2].method = "html_table"
             /\ ran'[2].count = 0 =>
                   /\ all_sectors' = <<>>
                   /\ outcome' = outcome
                   /\ pc' = "extract"
       /\ (pc = "extract" /\ Len(ran) = 2 /\ ran[2].count = 0) =>
             /\ Len(ran') = 3
             /\ ran'[3].method = "page_text"
       /\ (combo' = combo + 1 /\ list_response'.kind \in NoDiffKinds) =>
             list_out' = [kind |-> "running", val |-> <<>>]
       /\ (list_out.kind = "running" /\ list_response.kind \in NoDiffKinds /\ combo < NumCombinations) =>
             combo' = combo + 1
       /\ (history_out.kind = "pending" /\ kline_response.kind \in NoKlineKinds) =>
             history_out' = [kind |-> "returned", val |-> <<>>]]_vars

\* a crawl attempt in which the API gave nothing and the page had no table
\* the table strategy could read: the page_text strategy has run after it
C19_Witness ==
    /\ outcome.kind = "running"
    /\ Len(ran) = 3
    /\ ran[1] = [method |-> "api", count |-> 0]
    /\ ran[2] = [method |-> "html_table", count |-> 0]
    /\ ran[3].method = "page_text"

----------------------------------------------------------------------------
\* one bad record in a batch

\* the records of the entries of an API payload that convert, in their order
GoodSectors(diff) ==
    LET idx == SelectSeq([i \in 1 .. Len(diff) |-> i],
                         LAMBDA i : diff[i].dict /\ ApiSector(diff[i]).ok)
    IN  [j \in 1 .. Len(idx) |-> ApiSector(diff[idx[j]]).rec]

\* the stocks of the entries of a stock-list payload that convert and have a
\* code and a name, in their order
GoodStocks(diff) ==
    LET idx == SelectSeq([i \in 1 .. Len(diff) |-> i],
                         LAMBDA i : /\ diff[i].dict
                                    /\ StockInfoOf(diff[i]).ok
                                    /\ HasCodeAndName(StockInfoOf(diff[i]).info))
    IN  [j \in 1 .. Len(idx) |-> clean_stock_data(StockInfoOf(diff[idx[j]]).info)]

\* C20: in the API sector parser and in the stock-list mapper a record whose
\* fields cannot be extracted is skipped, and every other record of the batch
\* that parses is in the output, in its original relative order.
C20_ParseFailureIsLocal ==
    /\ (pc = "api_done" /\ api_response.kind = "json") =>
          all_sectors = GoodSectors(api_response.diff)
    /\ (list_response.kind = "json" /\ GoodStocks(list_response.diff) # <<>>) =>
          list_out = [kind |-> "returned", val |-> GoodStocks(list_response.diff)]

----------------------------------------------------------------------------
\* the first good response of the stock list

\* C21: as soon as a combination brings a well-formed response with a
\* non-empty data.diff array, get_sector_stocks has returned the records
\* mapped from that response in the order of the response, and once it has
\* returned it issues no further request.
C21_StopsAtFirstGoodResponse ==
    (combo > 0 /\ list_response.kind = "json" /\ list_response.diff # <<>>
        /\ \A i \in 1 .. Len(list_response.diff) : list_response.diff[i].dict) =>
        /\ list_out.kind = "returned"
        /\ list_out.val = GoodStocks(list_response.diff)

----------------------------------------------------------------------------
\* add_history_prices_to_stocks (eastmoney_fund_flow.py 1325-1419)

\* the most stocks the list has
MaxHistStocks == 3

\* the days argument of the calls of SpecAddHist; with fewer than 5 bars the
\* averages of lines 1360-1367 and the indicators of lines 1376-1377 and
\* 1384-1411 are not computed
AddHistDays == 2

\* a stock of the list: its code ('' when it has none), whether it has the
\* 'name' key, and the keys the loop has set on it
HistStock(code, has_name) ==
    [code |-> code, has_name |-> has_name, has_history |-> FALSE, history_prices |-> <<>>,
     history_change_rate |-> Absent]

\* ((latest_price - prev_price) / prev_price) * 100, line 1373
HistoryChangeRate(latest_price, prev_price) ==
    IF prev_price = RZero THEN Err("ZeroDivisionError")
    ELSE Ok(RMul(RDiv(RSub(latest_price, prev_price), prev_price), RInt(100)))

\* lines 1351-1413 for a stock whose history_prices were set: the exception
\* raised, and the stock as the statements before it left it
AddIndicators(s, history_prices) ==
    IF history_prices = <<>> THEN [raised |-> "none", stock |-> s]
    ELSE IF Len(history_prices) >= 2
              /\ ~HistoryChangeRate(history_prices[1].close_price, history_prices[2].close_price).ok
         THEN [raised |-> "ZeroDivisionError", stock |-> s]
    ELSE IF ~s.has_name
         THEN [raised |-> "KeyError",
               stock |-> IF Len(history_prices) >= 2
                         THEN [s EXCEPT !.history_change_rate =
                                  Num(HistoryChangeRate(history_prices[1].close_price,
                                                        history_prices[2].close_price).v)]
                         ELSE s]
    ELSE [raised |-> "none",
          stock |-> IF Len(history_prices) >= 2
                    THEN [s EXCEPT !.history_change_rate =
                             Num(HistoryChangeRate(history_prices[1].close_price,
                                                   history_prices[2].close_price).v)]
                    ELSE s]

\* lines 1345-1348: the stock with the history the fetch gave
WithHistory(s, history_prices) == [s EXCEPT !.has_history = TRUE, !.history_prices = history_prices]

\* one iteration of the loop of lines 1341-1416 for a stock with a code
AddHistoryTo(s, history_prices) == AddIndicators(WithHistory(s, history_prices), history_prices)

\* what the K-line endpoint can answer for one stock
AddHistResponses ==
    {[kind |-> k, klines |-> <<>>] : k \in {"timeout", "not_json", "no_data", "empty_klines"}}
    \cup {[kind |-> "klines", klines |-> ks] :
            ks \in {<<Kline(2, 6, <<"1", "0">>)>>,
                    <<Kline(2, 6, <<"1", "0">>), Kline(1, 6, <<"1", "0">>)>>,
                    <<Kline(2, 6, <<"1", "0">>), Kline(1, 6, <<"5">>)>>,
                    <<Kline(2, 6, <<"1", "0">>), Kline(1, 6, <<"0">>)>>,
                    <<Kline(2, 6, <<"1", "0">>), Kline(1, 6, <<"-">>)>>,
                    <<Kline(2, 5, <<"1", "0">>)>>}}

\* the stock lists given to the function
HistStockLists ==
    UNION {[1 .. n -> {HistStock(code, has_name) : code \in {<<>>, <<"6", "0", "0">>}, has_name \in BOOLEAN}] :
              n \in 0 .. MaxHistStocks}

AddHistInit ==
    /\ addhist_stocks \in HistStockLists
    /\ addhist_pos = 0
    /\ addhist_out = "running"
    /\ RetryIdle
    /\ FieldIdle
    /\ RankIdle
    /\ CleanIdle
    /\ CrawlIdle
    /\ ListIdle
    /\ HistIdle
    /\ FactorIdle
    /\ SelectIdle
    /\ ExtractIdle
    /\ ColumnIdle
    /\ SectorIdle

\* an iteration of the loop for a stock without a code, line 1343
SkipStock ==
    /\ addhist_out = "running"
    /\ addhist_pos < Len(addhist_stocks)
    /\ addhist_stocks[addhist_pos + 1].code = <<>>
    /\ addhist_pos' = addhist_pos + 1
    /\ UNCHANGED <<addhist_stocks, addhist_out>>
    /\ UNCHANGED <<retry_vars, field_vars, rank_vars, clean_vars, crawl_vars, list_vars, hist_vars, factor_vars, select_vars, extract_vars, column_vars, sector_vars>>

\* an iteration of the loop for a stock with a code, lines 1343-1416: the
\* fetch, the keys set on the stock, and the exception that leaves the function
AddHistoryStep ==
    /\ addhist_out = "running"
    /\ addhist_pos < Len(addhist_stocks)
    /\ addhist_stocks[addhist_pos + 1].code # <<>>
    /\ \E resp \in AddHistResponses :
          LET r == AddHistoryTo(addhist_stocks[addhist_pos + 1], get_stock_history_prices(resp, AddHistDays))
          IN  /\ addhist_stocks' = [addhist_stocks EXCEPT ![addhist_pos + 1] = r.stock]
              /\ addhist_out' = IF r.raised = "none" THEN addhist_out ELSE "raised"
    /\ addhist_pos' = addhist_pos + 1
    /\ UNCHANGED <<retry_vars, field_vars, rank_vars, clean_vars, crawl_vars, list_vars, hist_vars, factor_vars, select_vars, extract_vars, column_vars, sector_vars>>

\* return stocks, lines 1336-1337 and 1419
AddHistoryReturns ==
    /\ addhist_out = "running"
    /\ addhist_pos = Len(addhist_stocks)
    /\ addhist_out' = "returned"
    /\ UNCHANGED <<addhist_stocks, addhist_pos>>
    /\ UNCHANGED <<retry_vars, field_vars, rank_vars, clean_vars, crawl_vars, list_vars, hist_vars, factor_vars, select_vars, extract_vars, column_vars, sector_vars>>

AddHistNext == SkipStock \/ AddHistoryStep \/ AddHistoryReturns

SpecAddHist == AddHistInit /\ [][AddHistNext]_vars

\* C22: add_history_prices_to_stocks never raises, whatever the stocks and
\* the answers of the endpoint, and when it has returned every stock that
\* has a code has its history_prices set (to [] where the fetch failed).
C22_HistoryFailureTolerated ==
    /\ addhist_out \in {"running", "returned"}
    /\ addhist_out = "returned" =>
          \A i \in 1 .. Len(addhist_stocks) :
              addhist_stocks[i].code # <<>> => addhist_stocks[i].has_history

----------------------------------------------------------------------------
\* The extraction strategies, row by row (eastmoney_fund_flow.py 329-513)
\*
\* A text is a sequence of characters; a Chinese character is written by its
\* pinyin: ming cheng (name), ban kuai (sector), hang ye (industry), zhang die
\* fu (change rate), chao da dan (super large order), da dan (large order),
\* jing liu ru (net inflow), jing zhan bi (net ratio), zhu li (main force),
\* zui da gu (largest stock), xu hao (number), yin hang (bank), "Y" (yi).

\* keyword in text
Contains(t, keyword) ==
    \E i \in 0 .. Len(t) - Len(keyword) : SubSeq(t, i + 1, i + Len(keyword)) = keyword

\* the keys of FIELD_MAPPINGS and of default_positions, in their order
FieldNames == <<"name", "change_rate", "super_large_inflow", "super_large_ratio",
                "large_inflow", "large_ratio", "max_stock">>

\* FIELD_MAPPINGS, lines 101-109
FIELD_MAPPINGS ==
    [name |-> {<<"ming", "cheng">>, <<"ban", "kuai">>, <<"hang", "ye">>, <<"ban", "kuai", "ming", "cheng">>},
     change_rate |-> {<<"zhang", "die", "fu">>, <<"zhang">>, <<"die", "fu">>, <<"zhang", "die">>},
     super_large_inflow |-> {<<"chao", "da", "dan", "jing", "liu", "ru">>, <<"chao", "da", "dan", "liu", "ru">>,
                             <<"chao", "da", "dan">>},
     super_large_ratio |-> {<<"chao", "da", "dan", "jing", "liu", "ru", "jing", "zhan", "bi">>,
                            <<"chao", "da", "dan", "jing", "zhan", "bi">>, <<"chao", "da", "dan", "zhan", "bi">>},
     large_inflow |-> {<<"da", "dan", "jing", "liu", "ru">>, <<"da", "dan", "liu", "ru">>, <<"da", "dan">>},
     large_ratio |-> {<<"da", "dan", "jing", "liu", "ru", "jing", "zhan", "bi">>,
                      <<"da", "dan", "jing", "zhan", "bi">>, <<"da", "dan", "zhan", "bi">>},
     max_stock |-> {<<"zhu", "li", "jing", "liu", "ru", "zui", "da", "gu">>, <<"zui", "da", "gu">>,
                    <<"zhu", "li", "gu">>}]

\* default_positions, lines 397-405
default_positions ==
    [name |-> 1, change_rate |-> 2, super_large_inflow |-> 4, super_large_ratio |-> 5,
     large_inflow |-> 6, large_ratio |-> 7, max_stock |-> 9]

\* any(keyword in text for keyword in keywords), line 392
AnyKeywordIn(field, t) == \E keyword \in FIELD_MAPPINGS[field] : Contains(t, keyword)

\* the columns of the header whose text holds a keyword of the field, as
\* enumerate counts them (from 0)
KeywordColumns(field, header_texts) ==
    {i \in 0 .. Len(header_texts) - 1 : AnyKeywordIn(field, header_texts[i + 1])}

\* the least number of a non-empty set of numbers
Least(S) == CHOOSE i \in S : \A k \in S : i <= k

\* build_column_mapping(header_texts), lines 386-411: the first column with a
\* keyword of the field, and the default position where there is none
build_column_mapping(header_texts) ==
    [field \in {FieldNames[k] : k \in 1 .. Len(FieldNames)} |->
        IF KeywordColumns(field, header_texts) # {}
        THEN Least(KeywordColumns(field, header_texts))
        ELSE default_positions[field]]

\* safe_get_cell_text(cell_texts, index, default), lines 425-427
safe_get_cell_text(cell_texts, index, default) ==
    IF index < Len(cell_texts) THEN cell_texts[index + 1] ELSE default

\* the float extract_float_value gives for the cell of the field
CellFloat(cell_texts, col_map, field, default) ==
    extract_float_value(safe_get_cell_text(cell_texts, col_map[field], default)).val

\* extract_sector_data_from_row(cell_texts, col_map), lines 413-423
extract_sector_data_from_row(cell_texts, col_map) ==
    [name |-> safe_get_cell_text(cell_texts, col_map["name"], Unknown),
     change_rate |-> CellFloat(cell_texts, col_map, "change_rate", <<"0", "%">>),
     super_large_inflow |-> CellFloat(cell_texts, col_map, "super_large_inflow", <<"0", "Y">>),
     super_large_ratio |-> CellFloat(cell_texts, col_map, "super_large_ratio", <<"0", "%">>),
     large_inflow |-> CellFloat(cell_texts, col_map, "large_inflow", <<"0", "Y">>),
     large_ratio |-> CellFloat(cell_texts, col_map, "large_ratio", <<"0", "%">>),
     max_stock |-> safe_get_cell_text(cell_texts, col_map["max_stock"], Unknown)]

\* the names is_valid_sector_data rejects, line 431
HeaderLabels == {<<"jing", "zhan", "bi">>, <<"ming", "cheng">>, <<"ban", "kuai">>, <<"hang", "ye">>}

\* is_valid_sector_data(sector_data), lines 429-440; the two required fields
\* are floats in every dict extract_sector_data_from_row builds
is_valid_sector_data(sector_data) ==
    ~(sector_data.name = <<>> \/ sector_data.name \in HeaderLabels)

\* EXTRACTION_CONFIG['table_min_cols'], line 89
table_min_cols == 8

\* the loop of lines 362-382 over the data rows of one table from row i on
RECURSIVE TableRows(_, _, _, _)
TableRows(rows, col_map, i, acc) ==
    IF i > Len(rows) THEN acc
    ELSE IF Len(rows[i]) < table_min_cols THEN TableRows(rows, col_map, i + 1, acc)
    ELSE TableRows(rows, col_map, i + 1,
                   IF is_valid_sector_data(extract_sector_data_from_row(rows[i], col_map))
                   THEN Append(acc, extract_sector_data_from_row(rows[i], col_map))
                   ELSE acc)

\* the loop of lines 341-382 over the tables from table i on; a table is the
\* sequence of its rows, a row the sequence of the texts of its cells
RECURSIVE ExtractFromTables(_, _, _)
ExtractFromTables(tables, i, acc) ==
    IF i > Len(tables) THEN acc
    ELSE IF Len(tables[i]) <= 1 THEN ExtractFromTables(tables, i + 1, acc)
    ELSE ExtractFromTables(tables, i + 1,
                           TableRows(tables[i], build_column_mapping(tables[i][1]), 2, acc))

\* [-+]?\d+\.\d+ tried at the start of t: the last index of the match, 0 when
\* the pattern does not match there
DecimalEnd(t) ==
    IF t = <<>> THEN 0
    ELSE IF MatchEnd(t, 1) > 0 /\ Contains(SubSeq(t, 1, MatchEnd(t, 1)), <<".">>) THEN MatchEnd(t, 1)
    ELSE 0

\* the word is [-+]?\d+\.\d+ followed by the character c and, when rest is
\* FALSE, by nothing else
IsAmount(t, c, rest) ==
    /\ DecimalEnd(t) > 0
    /\ DecimalEnd(t) < Len(t)
    /\ t[DecimalEnd(t) + 1] = c
    /\ rest \/ DecimalEnd(t) + 1 = Len(t)

\* the pattern of line 449 tried on the words k .. k + 7 of the page text,
\* which is the sequence of its words between white space
MatchesAt(words, k) ==
    /\ words[k] # <<>> /\ IsDigit(words[k][Len(words[k])])
    /\ words[k + 1] # <<>>
    /\ IsAmount(words[k + 2], "%", FALSE)
    /\ IsAmount(words[k + 3], "Y", TRUE)
    /\ IsAmount(words[k + 4], "Y", FALSE)
    /\ IsAmount(words[k + 5], "%", FALSE)
    /\ IsAmount(words[k + 6], "Y", FALSE)
    /\ IsAmount(words[k + 7], "%", TRUE)

\* re.findall(pattern, page_text), line 451: the first words of the matches,
\* which do not overlap, from word k on
RECURSIVE FindAll(_, _, _)
FindAll(words, k, acc) ==
    IF k + 7 > Len(words) THEN acc
    ELSE IF MatchesAt(words, k) THEN FindAll(words, k + 8, Append(acc, k))
    ELSE FindAll(words, k + 1, acc)

\* float(match[g]) for the amount in word w
AmountOf(w) == PyFloatStr(SubSeq(w, 1, DecimalEnd(w))).v

\* the dict of lines 456-464 for the match that starts at word k
MatchSector(words, k) ==
    [name |-> words[k + 1],
     change_rate |-> AmountOf(words[k + 2]),
     super_large_inflow |-> AmountOf(words[k + 4]),
     super_large_ratio |-> AmountOf(words[k + 5]),
     large_inflow |-> AmountOf(words[k + 6]),
     large_ratio |-> AmountOf(words[k + 7]),
     max_stock |-> Unknown]

\* EXTRACTION_CONFIG['regex_match_limit'], line 96
regex_match_limit == 20

\* the loop of lines 454-471 over matches[:20]
SectorsOfMatches(words, matches) ==
    [j \in 1 .. Min(Len(matches), regex_match_limit) |-> MatchSector(words, matches[j])]

\* extract_data_from_page_text(page_text) for the words of the text, lines 443-473
ExtractFromPageText(words) == SectorsOfMatches(words, FindAll(words, 1, <<>>))

\* a cell of a pandas table that holds NaN
NaNCell == <<"NaN">>

\* str(value) for a cell of a pandas table
CellStr(cell) == IF cell = NaNCell THEN <<"n", "a", "n">> ELSE cell

\* the names process_pandas_table rejects when one of them is in the name,
\* line 504
PandasLabels == {<<"ming", "cheng">>, <<"ban", "kuai">>, <<"hang", "ye">>, <<"n", "a", "n">>}

\* the dict of lines 493-501 for a row of at least 8 values
PandasSector(row_values) ==
    [name |-> CellStr(row_values[2]),
     change_rate |-> extract_float_value(CellStr(row_values[3])).val,
     super_large_inflow |-> extract_float_value(CellStr(row_values[5])).val,
     super_large_ratio |-> extract_float_value(CellStr(row_values[6])).val,
     large_inflow |-> extract_float_value(CellStr(row_values[7])).val,
     large_ratio |-> extract_float_value(CellStr(row_values[8])).val,
     max_stock |-> IF Len(row_values) > 9 THEN CellStr(row_values[10]) ELSE Unknown]

\* the test of line 504
PandasKeeps(name) == name # <<>> /\ ~\E keyword \in PandasLabels : Contains(name, keyword)

\* process_pandas_table(table), lines 476-513, from row i of the table on
RECURSIVE process_pandas_table(_, _, _)
process_pandas_table(rows, i, acc) ==
    IF i > Len(rows) THEN acc
    ELSE IF Len(rows[i]) < 8 \/ rows[i][1] = NaNCell THEN process_pandas_table(rows, i + 1, acc)
    ELSE process_pandas_table(rows, i + 1,
                              IF PandasKeeps(CellStr(rows[i][2])) THEN Append(acc, PandasSector(rows[i])) ELSE acc)

\* table.shape[0] > 10 and table.shape[1] > 8, line 302
ReasonableSize(rows) == Len(rows) > 10 /\ Len(rows[1]) > 8

\* extract_with_pandas(page_text) for the tables read_html finds, lines
\* 295-309: the rows of the first table of a reasonable size that gives any
RECURSIVE ExtractFromFrames(_, _)
ExtractFromFrames(frames, i) ==
    IF i > Len(frames) THEN <<>>
    ELSE IF ReasonableSize(frames[i]) /\ process_pandas_table(frames[i], 1, <<>>) # <<>>
         THEN process_pandas_table(frames[i], 1, <<>>)
    ELSE ExtractFromFrames(frames, i + 1)

----------------------------------------------------------------------------
\* SpecExtract: one source content read by one of the four strategies, and
\* the records ranked by process_sectors_data

\* the most tables of the page that hold the same rows
MaxTables == 2

\* five sectors (yin hang, mei tan, gang tie, dian li, qi che)
BaseNames == <<<<"yin", "hang">>, <<"mei", "tan">>, <<"gang", "tie">>, <<"dian", "li">>, <<"qi", "che">>>>

\* the names a row can carry in place of its sector's: the header labels, a
\* name that holds one, the name of the first sector, and the empty text
ProbeNames == HeaderLabels \cup {<<"ban", "kuai", "ming", "cheng">>, <<"yin", "hang">>, <<>>}

\* the names of the rows of the source: the five sectors, but for one row
PageContents == {BaseNames} \cup {[BaseNames EXCEPT ![p] = n] : p \in 1 .. Len(BaseNames), n \in ProbeNames}

\* the cells of the i-th row: number, name, change rate, main inflow, super
\* large inflow and ratio, large inflow and ratio, a further cell, the largest
\* stock
PageRow(name, i) ==
    <<<<Digits[i + 1]>>, name, <<"1", ".", "0", "0", "%">>, <<"9", ".", "0", "0", "Y">>,
      <<Digits[i + 1], ".", "5", "0", "Y">>, <<"2", ".", "0", "0", "%">>, <<"1", ".", "0", "0", "Y">>,
      <<"3", ".", "0", "0", "%">>, <<"x">>, <<"m">>>>

PageRows(names) == [i \in 1 .. Len(names) |-> PageRow(names[i], i)]

\* the header rows of a table: the columns of the page under their full
\* names, and a header that names no field but the name
PageHeaders ==
    {<<<<"xu", "hao">>, <<"ming", "cheng">>, <<"zhang", "die", "fu">>, <<"zhu", "li", "jing", "liu", "ru">>,
       <<"chao", "da", "dan", "jing", "liu", "ru">>, <<"chao", "da", "dan", "jing", "zhan", "bi">>,
       <<"da", "dan", "jing", "liu", "ru">>, <<"da", "dan", "jing", "zhan", "bi">>, <<"x">>,
       <<"zhu", "li", "jing", "liu", "ru", "zui", "da", "gu">>>>,
     <<<<"xu", "hao">>, <<"ming", "cheng">>>>}

\* the entry of data.diff for a row
PageItem(name, i) == ApiItem(Str(name), Num(RInt(5000 * i)), Num(RInt(10000)))

RECURSIVE Flatten(_)
Flatten(ss) == IF ss = <<>> THEN <<>> ELSE Head(ss) \o Flatten(Tail(ss))

\* rows past the content that bring a pandas table to 11 rows; the first of
\* them has NaN in its first cell
FillerRows(n) ==
    [k \in 1 .. 11 - n |-> [PageRow(<<"f", Digits[k + 1]>>, k) EXCEPT ![1] = IF k = 1 THEN NaNCell ELSE @]]

\* the content in the forms the strategies read
PageOf(names, header, n_tables) ==
    [diff |-> [i \in 1 .. Len(names) |-> PageItem(names[i], i)],
     tables |-> [t \in 1 .. n_tables |-> <<header>> \o PageRows(names)],
     words |-> Flatten(PageRows(names)),
     frames |-> <<PageRows(names) \o FillerRows(Len(names))>>]

ExtractInit ==
    /\ \E names \in PageContents, header \in PageHeaders, n_tables \in 1 .. MaxTables :
          page = PageOf(names, header, n_tables)
    /\ extracted = NoExtraction
    /\ RetryIdle
    /\ FieldIdle
    /\ RankIdle
    /\ CleanIdle
    /\ CrawlIdle
    /\ ListIdle
    /\ HistIdle
    /\ FactorIdle
    /\ SelectIdle
    /\ AddHistIdle
    /\ ColumnIdle
    /\ SectorIdle

\* fetch_sectors_from_api() when the endpoint answers with the content
ExtractByApi ==
    /\ extracted.method = "none"
    /\ extracted' = [extracted EXCEPT !.method = "api",
                                      !.sectors = fetch_sectors_from_api([kind |-> "json", diff |-> page.diff])]
    /\ UNCHANGED <<page, retry_vars, field_vars, rank_vars, clean_vars, crawl_vars, list_vars, hist_vars, factor_vars, select_vars, addhist_vars, column_vars, sector_vars>>

\* extract_data_from_tables(soup)
ExtractByTables ==
    /\ extracted.method = "none"
    /\ extracted' = [extracted EXCEPT !.method = "html_table",
                                      !.sectors = ExtractFromTables(page.tables, 1, <<>>)]
    /\ UNCHANGED <<page, retry_vars, field_vars, rank_vars, clean_vars, crawl_vars, list_vars, hist_vars, factor_vars, select_vars, addhist_vars, column_vars, sector_vars>>

\* extract_data_from_page_text(page_text)
ExtractByPageText ==
    /\ extracted.method = "none"
    /\ extracted' = [extracted EXCEPT !.method = "page_text", !.sectors = ExtractFromPageText(page.words)]
    /\ UNCHANGED <<page, retry_vars, field_vars, rank_vars, clean_vars, crawl_vars, list_vars, hist_vars, factor_vars, select_vars, addhist_vars, column_vars, sector_vars>>

\* extract_with_pandas(page_text)
ExtractByPandas ==
    /\ extracted.method = "none"
    /\ extracted' = [extracted EXCEPT !.method = "pandas", !.sectors = ExtractFromFrames(page.frames, 1)]
    /\ UNCHANGED <<page, retry_vars, field_vars, rank_vars, clean_vars, crawl_vars, list_vars, hist_vars, factor_vars, select_vars, addhist_vars, column_vars, sector_vars>>

\* return process_sectors_data(all_sectors), line 168, when the strategy gave
\* at least min_data_rows records
RankExtracted ==
    /\ extracted.method \notin {"none", "idle"}
    /\ extracted.ranked = None
    /\ Len(extracted.sectors) >= min_data_rows
    /\ extracted' = [extracted EXCEPT !.ranked = process_sectors_data(extracted.sectors)]
    /\ UNCHANGED <<page, retry_vars, field_vars, rank_vars, clean_vars, crawl_vars, list_vars, hist_vars, factor_vars, select_vars, addhist_vars, column_vars, sector_vars>>

ExtractNext == ExtractByApi \/ ExtractByTables \/ ExtractByPageText \/ ExtractByPandas \/ RankExtracted

SpecExtract == ExtractInit /\ [][ExtractNext]_vars

\* the names of the records of s
NamesOf(s) == [i \in 1 .. Len(s) |-> s[i].name]

\* C23: no record a strategy produced, and none of the ranked output, has a
\* name equal to one of the header labels ming cheng, ban kuai, hang ye and
\* jing zhan bi.
C23_NoHeaderLabelName ==
    /\ \A i \in 1 .. Len(extracted.sectors) : extracted.sectors[i].name \notin HeaderLabels
    /\ extracted.ranked # None =>
          \A i \in 1 .. Len(extracted.ranked.all) : extracted.ranked.all[i].name \notin HeaderLabels

\* no two records of s have the same name
UniqueNames(s) == \A i \in 1 .. Len(s) : \A j \in 1 .. Len(s) : s[i].name = s[j].name => i = j

\* C24: in the pair process_sectors_data makes of the records of a strategy
\* no two records of all_sectors, and no two of top_sectors, have the same
\* name, whatever the source held.
C24_UniqueSectorNames ==
    extracted.ranked # None =>
        /\ UniqueNames(extracted.ranked.all)
        /\ UniqueNames(extracted.ranked.top)

----------------------------------------------------------------------------
\* SpecColumns: build_column_mapping applied to a header row

\* the longest header row built from HeaderCells
MaxHeaderLen == 2

\* the header text that names each field on the page
FieldHeader ==
    [name |-> <<"ming", "cheng">>,
     change_rate |-> <<"zhang", "die", "fu">>,
     super_large_inflow |-> <<"chao", "da", "dan", "jing", "liu", "ru">>,
     super_large_ratio |-> <<"chao", "da", "dan", "jing", "zhan", "bi">>,
     large_inflow |-> <<"da", "dan", "jing", "liu", "ru">>,
     large_ratio |-> <<"da", "dan", "jing", "zhan", "bi">>,
     max_stock |-> <<"zhu", "li", "jing", "liu", "ru", "zui", "da", "gu">>]

\* the texts of header cells: those of the fields, the number column and the
\* main inflow column
HeaderCells ==
    {FieldHeader[FieldNames[k]] : k \in 1 .. Len(FieldNames)}
    \cup {<<"xu", "hao">>, <<"zhu", "li", "jing", "liu", "ru">>}

\* the seven field headers in the order of FieldNames, rotated by r columns
RotatedHeader(r) ==
    [i \in 1 .. Len(FieldNames) |-> FieldHeader[FieldNames[((i - 1 + r) % Len(FieldNames)) + 1]]]

\* the header rows given to the function: short rows of any cells, the seven
\* field headers in seven orders, and the header rows of the page
HeaderRows ==
    UNION {[1 .. n -> HeaderCells] : n \in 0 .. MaxHeaderLen}
    \cup {RotatedHeader(r) : r \in 0 .. Len(FieldNames) - 1}
    \cup PageHeaders

ColumnInit ==
    /\ header_row \in HeaderRows
    /\ col_map_out = None
    /\ RetryIdle
    /\ FieldIdle
    /\ RankIdle
    /\ CleanIdle
    /\ CrawlIdle
    /\ ListIdle
    /\ HistIdle
    /\ FactorIdle
    /\ SelectIdle
    /\ AddHistIdle
    /\ ExtractIdle
    /\ SectorIdle

\* col_map = build_column_mapping(header_texts), line 357
BuildColumnMapping ==
    /\ col_map_out = None
    /\ col_map_out' = build_column_mapping(header_row)
    /\ UNCHANGED <<header_row, retry_vars, field_vars, rank_vars, clean_vars, crawl_vars, list_vars, hist_vars, factor_vars, select_vars, addhist_vars, extract_vars, sector_vars>>

ColumnNext == BuildColumnMapping

SpecColumns == ColumnInit /\ [][ColumnNext]_vars

\* every field has a column of the header row to itself: its header text is
\* the text of exactly one column
EachFieldHasItsColumn(header) ==
    \A k \in 1 .. Len(FieldNames) :
        Cardinality({i \in 1 .. Len(header) : header[i] = FieldHeader[FieldNames[k]]}) = 1

\* C28: build_column_mapping returns an index for each of the seven fields,
\* and for a header row in which each field has its own column it maps each
\* field to the column whose header names that field, so that the seven
\* fields have seven distinct columns.
C28_ColumnMapDoesNotAlias ==
    col_map_out # None =>
        /\ DOMAIN col_map_out = {FieldNames[k] : k \in 1 .. Len(FieldNames)}
        /\ EachFieldHasItsColumn(header_row) =>
              \A k \in 1 .. Len(FieldNames) :
                  /\ col_map_out[FieldNames[k]] < Len(header_row)
                  /\ header_row[col_map_out[FieldNames[k]] + 1] = FieldHeader[FieldNames[k]]

----------------------------------------------------------------------------
\* SpecBaseline: calculate_momentum_factor with and without a market median

\* stocks whose change_rate is on, beside and far from the branch limits
BaselineStocks ==
    {StockWith([change_rate |-> cr, main_ratio |-> mr, volume_ratio |-> vr, price |-> p]) :
        cr \in {Absent, Num(RInt(-Extreme)), Num(RInt(-3)), Num(Rat(-21, 10)), Num(RInt(-2)), Num(RZero),
                Num(RInt(3)), Num(Rat(31, 10)), Num(RInt(4)), Num(RInt(5)), Num(RInt(6)), Num(RInt(Extreme))},
        mr \in {Num(RZero), Num(RInt(50))},
        vr \in {Absent, Num(Rat(1, 2)), Num(RInt(5))},
        p \in {Absent, Num(RZero), Num(RInt(10))}}

\* the market medians given to the function, and None
BaselineMedians == {Null, Num(RZero), Num(RInt(1)), Num(RInt(-2)), Num(Rat(5, 2))}

BaselineInit ==
    /\ stock \in BaselineStocks
    /\ factors = [kind |-> "pending"]
    /\ RetryIdle
    /\ FieldIdle
    /\ RankIdle
    /\ CleanIdle
    /\ CrawlIdle
    /\ TailIdle
    /\ ListIdle
    /\ HistIdle
    /\ SelectIdle

\* calculate_momentum_factor(stock, market_median_change), lines 162-221
ComputeBaseline ==
    /\ factors.kind = "pending"
    /\ \E m \in BaselineMedians :
          factors' = [kind |-> "done", fn |-> "momentum_score", market_median_change |-> m,
                      score |-> calculate_momentum_factor(stock, m)]
    /\ UNCHANGED <<stock, retry_vars, field_vars, rank_vars, clean_vars, crawl_vars, list_vars, hist_vars, select_vars, tail_vars>>

BaselineNext == ComputeBaseline

SpecBaseline == BaselineInit /\ [][BaselineNext]_vars

\* the reversal threshold the claim gives for a median, or for None
ClaimedThreshold(m) ==
    IF m = Null THEN RInt(5)
    ELSE IF RLe(RInt(3), RMul(RInt(2), RAbs(m.v))) THEN RMul(RInt(2), RAbs(m.v)) ELSE RInt(3)

\* the branch the claim gives for a change_rate
ClaimedBranch(cr, m) ==
    IF RLt(ClaimedThreshold(m), cr) THEN "reversal_down"
    ELSE IF RLt(cr, RInt(-2)) THEN "reversal_up"
    ELSE "momentum"

\* the weighted sum of a branch: a * x + b * fund_strength + c *
\* super_large_strength + d * volume_factor
BranchSum(s, a, x, b, c, d) ==
    RAdd(RAdd(RAdd(RMul(a, x), RMul(b, FundStrength(s))), RMul(c, SuperLargeStrength(s))),
         RMul(d, VolumeFactor(Get(s, "volume_ratio", RInt(1)))))

\* the value of each branch, lines 203-213
BranchValue(s, branch) ==
    CASE branch = "reversal_down" ->
             BranchSum(s, Rat(-1, 2), Get(s, "change_rate", RZero), Rat(3, 2), RInt(1), Rat(4, 5))
      [] branch = "reversal_up" ->
             BranchSum(s, Rat(4, 5), RAbs(Get(s, "change_rate", RZero)), RInt(1), Rat(4, 5), Rat(6, 5))
      [] branch = "momentum" ->
             BranchSum(s, Rat(6, 5), Get(s, "change_rate", RZero), Rat(3, 2), Rat(6, 5), RInt(1))

\* 1 + 0.2 * 100 / (price + 50), lines 216-218
PriceMultiplier(s) == RAdd(RInt(1), RDiv(RInt(20), RAdd(Get(s, "price", RInt(100)), RInt(50))))

\* x brought into [-100, 100]
Bounded(x) == IF RLt(x, RInt(-100)) THEN RInt(-100) ELSE IF RLt(RInt(100), x) THEN RInt(100) ELSE x

\* C25: the score calculate_momentum_factor returns is the value of the one
\* branch its change_rate selects (reversal-down above the threshold,
\* reversal-up below -2.0, momentum otherwise, the limits included), times
\* the price multiplier, clamped to [-100, 100]; the threshold is max(3.0,
\* 2 * |median|) with a median and 5.0 without.
C25_BaselineBranch ==
    factors.kind = "done" =>
        factors.score =
            Bounded(RMul(BranchValue(stock, ClaimedBranch(Get(stock, "change_rate", RZero),
                                                          factors.market_median_change)),
                         PriceMultiplier(stock)))

\* a change_rate equal to the threshold of its median was scored by the
\* momentum branch
C25_Witness ==
    /\ factors.kind = "done"
    /\ factors.market_median_change = Num(RInt(-2))
    /\ stock.f["change_rate"] = Num(RInt(4))
    /\ stock.f["main_ratio"] = Num(RZero)
    /\ stock.f["volume_ratio"] = Num(Rat(1, 2))
    /\ stock.f["price"] = Num(RInt(10))
    /\ factors.score = RMul(RAdd(RMul(Rat(6, 5), RInt(4)), Rat(-1, 2)), Rat(4, 3))

----------------------------------------------------------------------------
\* the phase composite of select_stocks_with_phase

\* the weights of a phase add up to 1
WeightsSumToOne(w) ==
    RAdd(RAdd(w.momentum_factor, w.trend_factor), RAdd(w.volume_factor, w.fund_flow_factor)) = RInt(1)

\* the volume factor of lines 446-449 for a volume_ratio
PhaseVolumeFactor(volume_ratio) ==
    IF RLt(RInt(3), volume_ratio) THEN RAdd(RInt(2), RMul(RSub(volume_ratio, RInt(3)), Rat(1, 5)))
    ELSE RSub(volume_ratio, RInt(1))

\* the keys of a phase selection on the scored stock sc are those the claim
\* gives for the input stock s, the median m and the weights w
PhaseTagged(sc, s, m, phase, w) ==
    /\ sc.phase_type = phase
    /\ sc.phase_momentum_score = calculate_momentum_factor(s, m)
    /\ sc.phase_trend_score = calculate_trend_factor(s)
    /\ sc.phase_volume_factor = PhaseVolumeFactor(Get(s, "volume_ratio", RInt(1)))
    /\ sc.phase_fund_flow_factor =
          RAdd(RMul(Rat(3, 5), RDiv(Get(s, "main_inflow", RZero), RInt(InflowUnit))),
               RMul(Rat(2, 5), Get(s, "main_ratio", RZero)))
    /\ sc.phase_composite_score =
          RAdd(RAdd(RMul(sc.phase_momentum_score, w.momentum_factor),
                    RMul(sc.phase_trend_score, w.trend_factor)),
               RAdd(RMul(RMul(RInt(20), sc.phase_volume_factor), w.volume_factor),
                    RMul(RMul(RInt(20), sc.phase_fund_flow_factor), w.fund_flow_factor)))

\* C26: with each of the three phases, select_stocks_with_phase takes the
\* weights of the phase from the table, which add up to 1, and gives every
\* collected stock the phase name, the four component scores and the composite
\* momentum * w_momentum + trend * w_trend + 20 * volume * w_volume + 20 *
\* fund_flow * w_fund of those components.
C26_PhaseComposite ==
    /\ \A phase \in PhaseTypes : WeightsSumToOne(PHASE_CONFIG[phase])
    /\ (selection.kind \in {"selected", "reported"} /\ selection.fn \in PhaseTypes) =>
          /\ Len(selection.all_stocks) = Len(InputStocks)
          /\ \A i \in 1 .. Len(InputStocks) :
                PhaseTagged(selection.all_stocks[i].scores, InputStocks[i], MarketMedianChange(InputStocks),
                            selection.fn, PHASE_CONFIG[selection.fn])

\* a phase selection over three stocks, one of which has every component
\* other than zero
C26_Witness ==
    /\ selection.kind = "selected"
    /\ selection.fn = "sideways"
    /\ Len(selection.all_stocks) = 3
    /\ \E i \in 1 .. 3 :
          /\ selection.all_stocks[i].scores.phase_type = "sideways"
          /\ selection.all_stocks[i].scores.phase_momentum_score # RZero
          /\ selection.all_stocks[i].scores.phase_trend_score # RZero
          /\ selection.all_stocks[i].scores.phase_volume_factor = Rat(12, 5)
          /\ selection.all_stocks[i].scores.phase_fund_flow_factor = Rat(106, 5)

----------------------------------------------------------------------------
\* the breakout component of calculate_trend_factor

\* the input passes the tests of lines 236 and 245
ValidTrendInput(s) ==
    /\ \A key \in {"ma5", "ma10", "ma20", "price"} : s.f[key] # Absent
    /\ \A key \in {"ma5", "ma10", "ma20", "price"} : RLt(RZero, s.f[key].v)

\* how many of the three averages the price exceeds
AveragesExceeded(s) == Cardinality({key \in {"ma5", "ma10", "ma20"} : RLt(s.f[key].v, s.f["price"].v)})

\* breakthrough_strength of a valid input
BreakoutOf(s) == BreakthroughStrength(s.f["price"].v, s.f["ma5"].v, s.f["ma10"].v, s.f["ma20"].v)

\* the trend score of a valid input with the breakout component bk
TrendScoreWith(s, bk) ==
    Bounded(RAdd(RAdd(RMul(TrendStrength(s.f["ma5"].v, s.f["ma10"].v, s.f["ma20"].v), RInt(40)),
                      RMul(Clamp(RInt(-2), RInt(2),
                                 RMul(RAdd(RDiv(RSub(s.f["ma5"].v, s.f["ma10"].v), s.f["ma10"].v),
                                           RDiv(RSub(s.f["ma10"].v, s.f["ma20"].v), s.f["ma20"].v)),
                                      RInt(50))),
                           RInt(20))),
                 RMul(bk, RInt(40))))

\* C27: in calculate_trend_factor the breakout component is 1.0 when the
\* price exceeds all three averages and -0.5 when it exceeds none, and two
\* valid inputs whose prices exceed the same number of the averages have the
\* same breakout component.
C27_BreakoutByCount ==
    (factors.kind = "done" /\ factors.fn = "phase_trend_score" /\ ValidTrendInput(stock)) =>
        /\ factors.score = TrendScoreWith(stock, BreakoutOf(stock))
        /\ AveragesExceeded(stock) = 3 => BreakoutOf(stock) = RInt(1)
        /\ AveragesExceeded(stock) = 0 => BreakoutOf(stock) = Rat(-1, 2)
        /\ \A o \in TrendStocks :
              (ValidTrendInput(o) /\ AveragesExceeded(o) = AveragesExceeded(stock)) =>
                  BreakoutOf(o) = BreakoutOf(stock)

----------------------------------------------------------------------------
\* SpecReclean: clean_stock_data called again on the dict it returned

\* the most calls of clean_stock_data on one dict
MaxCleanCalls == 3

\* clean_stock_data(stock_info) on a dict a call has already returned
CleanAgain ==
    /\ cleaned
    /\ clean_calls < MaxCleanCalls
    /\ stock_info' = clean_stock_data(stock_info)
    /\ clean_calls' = clean_calls + 1
    /\ UNCHANGED <<stock_in, cleaned, retry_vars, field_vars, rank_vars, crawl_vars, later_vars>>

RecleanNext == CleanStock \/ CleanAgain

SpecReclean == CleanInit /\ [][RecleanNext]_vars

\* C29: clean_stock_data is idempotent: after every further call on the dict
\* it returned, every field (the float fields, price_position, the two
\* market-cap conversions, fund_intensity, volume_status and turnover_status)
\* holds what the first call left in it.
C29_CleaningIdempotent ==
    cleaned => stock_info = clean_stock_data(stock_in)

\* a dict with a text price, a price position other than 50, a market cap
\* and its conversion, cleaned twice
C29_Witness ==
    /\ clean_calls = 2
    /\ stock_in["price"] = Str(<<"-">>)
    /\ stock_in["market_cap"] = Num(RInt(5))
    /\ stock_info["price"] = Num(RZero)
    /\ stock_info["price_position"] = Num(RInt(-100))
    /\ stock_info["market_cap_billion"] = Num(RZero)
    /\ stock_info["market_cap"] = Num(RInt(5))

----------------------------------------------------------------------------
\* fetch_sector_stocks_data (eastmoney_fund_flow.py 1452-1482)

\* the most sectors in top_sectors_with_urls
MaxSectors == 3

\* days=30, line 1468
sector_history_days == 30

\* a sector as get_sector_urls (775-777) leaves it: its name, and the sector
\* code in its url, empty when the url is the base url, which has no
\* '/bkzj/BK' in it
SectorWithUrl(name, sector_code) == [name |-> name, sector_code |-> sector_code]

\* all_sector_stocks[key] = val on a dict held as the sequence of its items
DictSet(items, key, val) ==
    IF \E i \in 1 .. Len(items) : items[i].key = key
    THEN [i \in 1 .. Len(items) |-> IF items[i].key = key THEN [key |-> key, val |-> val] ELSE items[i]]
    ELSE Append(items, [key |-> key, val |-> val])

\* the value under a key the dict has
DictGet(items, key) == items[CHOOSE i \in 1 .. Len(items) : items[i].key = key].val

RECURSIVE add_history_prices_to_stocks(_, _, _)

\* the loop of lines 1341-1416 after the iteration for stocks[i] gave r
AddHistoryRest(stocks, resps, i, r) ==
    IF r.raised # "none" THEN [raised |-> r.raised, stocks |-> stocks]
    ELSE add_history_prices_to_stocks([stocks EXCEPT ![i] = r.stock], resps, i + 1)

\* add_history_prices_to_stocks(stocks, days=30), lines 1325-1419, from
\* stocks[i] on, the endpoint answering resps[k] for stocks[k]: the
\* exception that left it, or the list it returned
add_history_prices_to_stocks(stocks, resps, i) ==
    IF i > Len(stocks) THEN [raised |-> "none", stocks |-> stocks]
    ELSE IF stocks[i].code = <<>> THEN add_history_prices_to_stocks(stocks, resps, i + 1)
    ELSE AddHistoryRest(stocks, resps, i,
                        AddHistoryTo(stocks[i], get_stock_history_prices(resps[i], sector_history_days)))

\* what get_sector_stocks can return: [] when every request failed or gave
\* no stock, or the stocks of the sector
SectorFetchResults ==
    {<<>>, <<HistStock(<<"6", "0", "1">>, TRUE)>>,
     <<HistStock(<<"6", "0", "1">>, TRUE), HistStock(<<"6", "0", "2">>, TRUE)>>}

\* what the K-line endpoint can answer for one stock of a sector
SectorHistResponses ==
    {[kind |-> "timeout", klines |-> <<>>],
     [kind |-> "klines", klines |-> <<Kline(2, 6, <<"1", "0">>), Kline(1, 6, <<"1", "0">>)>>],
     [kind |-> "klines", klines |-> <<Kline(2, 6, <<"1", "0">>), Kline(1, 6, <<"0">>)>>]}

SectorLists ==
    UNION {[1 .. n -> {SectorWithUrl(name, sector_code) :
                          name \in {<<"a">>, <<"b">>}, sector_code \in {<<>>, <<"B", "K", "1">>}}] :
              n \in 0 .. MaxSectors}

SectorInit ==
    /\ top_sectors_with_urls \in SectorLists
    /\ all_sector_stocks = <<>>
    /\ sector_pos = 0
    /\ sectors_out = "running"
    /\ RetryIdle
    /\ FieldIdle
    /\ RankIdle
    /\ CleanIdle
    /\ CrawlIdle
    /\ ListIdle
    /\ HistIdle
    /\ FactorIdle
    /\ SelectIdle
    /\ AddHistIdle
    /\ ExtractIdle
    /\ ColumnIdle

\* an iteration of the loop for a url without a sector code, lines 1479-1480
SectorWithoutCode ==
    /\ sectors_out = "running"
    /\ sector_pos < Len(top_sectors_with_urls)
    /\ top_sectors_with_urls[sector_pos + 1].sector_code = <<>>
    /\ all_sector_stocks' = DictSet(all_sector_stocks, top_sectors_with_urls[sector_pos + 1].name, <<>>)
    /\ sector_pos' = sector_pos + 1
    /\ UNCHANGED <<top_sectors_with_urls, sectors_out>>
    /\ UNCHANGED <<retry_vars, field_vars, rank_vars, clean_vars, crawl_vars, list_vars, hist_vars, factor_vars, select_vars, addhist_vars, extract_vars, column_vars>>

\* the dict and the state of the call after add_history_prices_to_stocks
\* gave r for the sector of this name, lines 1468-1469
SectorStored(name, r) ==
    IF r.raised = "none"
    THEN /\ all_sector_stocks' = DictSet(all_sector_stocks, name, r.stocks)
         /\ sectors_out' = sectors_out
    ELSE /\ all_sector_stocks' = all_sector_stocks
         /\ sectors_out' = "raised"

\* an iteration of the loop for a url with a sector code, lines 1461-1478
SectorFetch ==
    /\ sectors_out = "running"
    /\ sector_pos < Len(top_sectors_with_urls)
    /\ top_sectors_with_urls[sector_pos + 1].sector_code # <<>>
    /\ \E stocks \in SectorFetchResults :
          IF stocks = <<>>
          THEN /\ all_sector_stocks' = DictSet(all_sector_stocks, top_sectors_with_urls[sector_pos + 1].name, <<>>)
               /\ sectors_out' = sectors_out
          ELSE \E resps \in [1 .. Len(stocks) -> SectorHistResponses] :
                  SectorStored(top_sectors_with_urls[sector_pos + 1].name,
                               add_history_prices_to_stocks(stocks, resps, 1))
    /\ sector_pos' = sector_pos + 1
    /\ UNCHANGED top_sectors_with_urls
    /\ UNCHANGED <<retry_vars, field_vars, rank_vars, clean_vars, crawl_vars, list_vars, hist_vars, factor_vars, select_vars, addhist_vars, extract_vars, column_vars>>

\* return all_sector_stocks, line 1482
SectorsReturn ==
    /\ sectors_out = "running"
    /\ sector_pos = Len(top_sectors_with_urls)
    /\ sectors_out' = "returned"
    /\ UNCHANGED <<top_sectors_with_urls, all_sector_stocks, sector_pos>>
    /\ UNCHANGED <<retry_vars, field_vars, rank_vars, clean_vars, crawl_vars, list_vars, hist_vars, factor_vars, select_vars, addhist_vars, extract_vars, column_vars>>

SectorNext == SectorWithoutCode \/ SectorFetch \/ SectorsReturn

SpecSector == SectorInit /\ [][SectorNext]_vars

\* C30: fetch_sector_stocks_data is not left by an exception, whatever one
\* sector's fetches gave, so the sectors after it are fetched and the stocks
\* before it are kept; the dict it returns has the names of the sectors it
\* was given as its keys, with an empty list for a sector whose url has no
\* sector code.
C30_SectorsIndependent ==
    /\ sectors_out \in {"running", "returned"}
    /\ sectors_out = "returned" =>
          /\ {all_sector_stocks[i].key : i \in 1 .. Len(all_sector_stocks)}
                = {top_sectors_with_urls[i].name : i \in 1 .. Len(top_sectors_with_urls)}
          /\ \A i \in 1 .. Len(top_sectors_with_urls) :
                top_sectors_with_urls[i].sector_code = <<>> =>
                    DictGet(all_sector_stocks, top_sectors_with_urls[i].name) = <<>>

====
